---------------------------- MODULE Spec2Model ----------------------------
(***************************************************************************)
(* GestureEngine (src/unnamed/part_001): hand landmarks -> gesture events. *)
(*                                                                         *)
(* Coordinates are the normalized landmark coordinates on a dyadic grid:   *)
(* the integer n stands for n / Unit.  Times are Date.now() milliseconds.  *)
(* A JavaScript null/undefined field is the empty sequence, a set field is *)
(* the one-element sequence <<v>>.                                         *)
(***************************************************************************)
EXTENDS Integers, Sequences, FiniteSets, TLC

Unit == 2^10

NumLandmarks == 21

Null == << >>

Some(v) == <<v>>

Val(o) == o[1]

\* JavaScript number coercion in arithmetic: null counts as 0.
Num(o) == IF o = Null THEN 0 ELSE Val(o)

\* JavaScript truthiness of a field holding null/undefined or a number.
Truthy(o) == o # Null /\ Val(o) # 0

Abs(n) == IF n < 0 THEN -n ELSE n

Min(a, b) == IF a < b THEN a ELSE b

(***************************************************************************)
(* JavaScript numbers that are not on the grid: IEEE 754 doubles.  A       *)
(* double is a sign s, a significand m of Precision bits and an exponent   *)
(* e, and stands for s * m * 2^e; zero has s = 0.  The significand is a    *)
(* natural number written in digits of Base, lowest digit first, so that   *)
(* no intermediate value leaves the range of the integers.  Every          *)
(* operation returns the double nearest to the exact result, ties to the   *)
(* even significand, as the arithmetic of the source does.  Infinities,    *)
(* NaN and subnormal numbers are out of reach of the values modelled.      *)
(***************************************************************************)
\* The widest digit whose products stay within 32-bit integers.
DigitBits == 31 \div 2

Base == 2^DigitBits

Precision == 53

Tuple(f) == << >> \o f

\* The digits of a without its leading zeros.
Trim(a) ==
    LET used == {i \in 1..Len(a) : a[i] # 0}
    IN  IF used = {} THEN << >>
        ELSE SubSeq(a, 1, CHOOSE i \in used : \A j \in used : j <= i)

Digit(a, i) == IF i >= 1 /\ i <= Len(a) THEN a[i] ELSE 0

Digits(n) == Trim(<<n % Base, (n \div Base) % Base, n \div (Base * Base)>>)

RECURSIVE AddFrom(_, _, _, _)
AddFrom(a, b, i, carry) ==
    IF i > Len(a) /\ i > Len(b)
    THEN IF carry = 0 THEN << >> ELSE <<carry>>
    ELSE LET t == Digit(a, i) + Digit(b, i) + carry
         IN  <<t % Base>> \o AddFrom(a, b, i + 1, t \div Base)

BigAdd(a, b) == AddFrom(a, b, 1, 0)

\* a - b for a >= b.
RECURSIVE SubFrom(_, _, _, _)
SubFrom(a, b, i, borrow) ==
    IF i > Len(a) THEN << >>
    ELSE LET t == a[i] - Digit(b, i) - borrow
         IN  <<IF t < 0 THEN t + Base ELSE t>>
             \o SubFrom(a, b, i + 1, IF t < 0 THEN 1 ELSE 0)

BigSub(a, b) == Trim(SubFrom(a, b, 1, 0))

\* -1, 0 or 1 as a is less than, equal to or greater than b.
BigCmp(a, b) ==
    IF Len(a) # Len(b) THEN (IF Len(a) < Len(b) THEN -1 ELSE 1)
    ELSE LET differ == {i \in 1..Len(a) : a[i] # b[i]}
             top == CHOOSE i \in differ : \A j \in differ : j <= i
         IN  IF differ = {} THEN 0 ELSE IF a[top] < b[top] THEN -1 ELSE 1

\* a * d for a digit d: the low halves of the digit products, and their
\* high halves one place up.
BigMulDigit(a, d) ==
    Trim(BigAdd([i \in 1..Len(a) |-> (a[i] * d) % Base],
                <<0>> \o [i \in 1..Len(a) |-> (a[i] * d) \div Base]))

\* The sum of the digit products a[i] * b[k + 1 - i] of place k (low
\* halves) and of place k - 1 (high halves), from a[i] up.
RECURSIVE Column(_, _, _, _)
Column(a, b, k, i) ==
    IF i > Len(a) THEN 0
    ELSE ((Digit(a, i) * Digit(b, k + 1 - i)) % Base)
         + ((Digit(a, i) * Digit(b, k - i)) \div Base)
         + Column(a, b, k, i + 1)

BigMul(a, b) ==
    LET n == Len(a) + Len(b)
    IN  Trim(BigAdd([k \in 1..n |-> Column(a, b, k, 1) % Base],
                    <<0>> \o [k \in 1..n |-> Column(a, b, k, 1) \div Base]))

\* a * 2^k
BigShl(a, k) ==
    LET up == 2^(k % DigitBits)
        down == 2^(DigitBits - (k % DigitBits))
    IN  IF a = << >> THEN << >>
        ELSE [i \in 1..(k \div DigitBits) |-> 0]
             \o Trim([i \in 1..(Len(a) + 1) |->
                         (Digit(a, i) % down) * up + (Digit(a, i - 1) \div down)])

\* a \div 2^k
BigShr(a, k) ==
    LET q == k \div DigitBits
        down == 2^(k % DigitBits)
        up == 2^(DigitBits - (k % DigitBits))
    IN  IF q >= Len(a) THEN << >>
        ELSE Trim(Tuple([i \in 1..(Len(a) - q) |->
                 (Digit(a, q + i) \div down) + (Digit(a, q + i + 1) % down) * up]))

\* Bit k of a, bit 0 the lowest.
BigBit(a, k) == (Digit(a, k \div DigitBits + 1) \div 2^(k % DigitBits)) % 2

\* Whether a has a bit set below bit k.
BigLowBits(a, k) ==
    \/ \E i \in 1..(k \div DigitBits) : Digit(a, i) # 0
    \/ Digit(a, k \div DigitBits + 1) % 2^(k % DigitBits) # 0

BitsOf(d) == CHOOSE k \in 0..DigitBits : d < 2^k /\ (k = 0 \/ d >= 2^(k - 1))

BitLen(a) ==
    IF a = << >> THEN 0 ELSE DigitBits * (Len(a) - 1) + BitsOf(a[Len(a)])

\* The quotient digit of cur by d and the remainder it leaves, for
\* cur < d * Base and a d whose top digit has all its bits in use: the
\* digit is first taken too small, from the two top digits of cur and the
\* top digit of d plus one, and then raised while the remainder allows.
RECURSIVE DivRaise(_, _, _)
DivRaise(d, q, r) ==
    IF BigCmp(r, d) < 0 THEN [q |-> q, r |-> r]
    ELSE DivRaise(d, q + 1, BigSub(r, d))

DivGuess(cur, d) ==
    (Digit(cur, Len(d) + 1) * Base + Digit(cur, Len(d))) \div (d[Len(d)] + 1)

DivLower(cur, d, q) == DivRaise(d, q, BigSub(cur, BigMulDigit(d, q)))

DivDigit(cur, d) == DivLower(cur, d, DivGuess(cur, d))

\* Long division of n by d from digit i of n down, r the remainder of the
\* digits above: the quotient, highest digit first, and the remainder.
RECURSIVE DivFrom(_, _, _, _)
DivJoin(digit, low) == [q |-> <<digit>> \o low.q, r |-> low.r]

DivNext(n, d, i, step) == DivJoin(step.q, DivFrom(n, d, i - 1, step.r))

DivFrom(n, d, i, r) ==
    IF i = 0 THEN [q |-> << >>, r |-> r]
    ELSE DivNext(n, d, i, DivDigit(Trim(<<n[i]>> \o r), d))

\* n \div d and whether n % d # 0, for d # 0: both are shifted first so
\* that the top digit of d has all its bits in use.
DivResult(top, low) ==
    [q |-> Trim([i \in 1..top |-> low.q[top + 1 - i]]), more |-> low.r # << >>]

DivTop(n, d, top) == DivResult(top, DivFrom(n, d, top, SubSeq(n, top + 1, Len(n))))

DivShifted(n, d) ==
    DivTop(n, d, IF Len(n) < Len(d) THEN 0 ELSE Len(n) - Len(d) + 1)

BigDiv(n, d) ==
    LET k == DigitBits - BitsOf(d[Len(d)])
    IN  DivShifted(BigShl(n, k), BigShl(d, k))

Zero == [s |-> 0, m |-> << >>, e |-> 0]

\* The double nearest to s * (n + f) * 2^e, where f is 0 if ~more and some
\* fraction strictly between 0 and 1 if more: n is cut to Precision bits, q,
\* and q is raised by one if the bits cut off are more than half of its last
\* place, or half of it and q is odd.
RoundTo(s, e, q) ==
    IF BitLen(q) > Precision THEN [s |-> s, m |-> BigShr(q, 1), e |-> e + 1]
    ELSE [s |-> s, m |-> q, e |-> e]

RoundUp(s, e, q, half, rest) ==
    RoundTo(s, e, IF half /\ (rest \/ BigBit(q, 0) = 1) THEN BigAdd(q, <<1>>)
                  ELSE q)

RoundAt(s, n, e, more, k) ==
    IF k <= 0 THEN [s |-> s, m |-> BigShl(n, 0 - k), e |-> e + k]
    ELSE RoundUp(s, e + k, BigShr(n, k), BigBit(n, k - 1) = 1,
                 more \/ BigLowBits(n, k - 1))

Round(s, n, e, more) ==
    IF n = << >> THEN Zero ELSE RoundAt(s, n, e, more, BitLen(n) - Precision)

\* The double of an integer.
FInt(n) ==
    Round(IF n < 0 THEN -1 ELSE 1, Digits(IF n < 0 THEN 0 - n ELSE n), 0, FALSE)

FNeg(a) == [a EXCEPT !.s = 0 - @]

FAbs(a) == [a EXCEPT !.s = IF @ = 0 THEN 0 ELSE 1]

\* -1, 0 or 1 as a is less than, equal to or greater than b.
FCmp(a, b) ==
    IF a.s # b.s THEN (IF a.s < b.s THEN -1 ELSE 1)
    ELSE IF a.s = 0 THEN 0
    ELSE IF a.e # b.e THEN (IF a.e < b.e THEN 0 - a.s ELSE a.s)
    ELSE a.s * BigCmp(a.m, b.m)

FLt(a, b) == FCmp(a, b) < 0

FMax(a, b) == IF FLt(a, b) THEN b ELSE a

FMin(a, b) == IF FLt(b, a) THEN b ELSE a

\* a + b for a # 0 and b # 0 with a.e >= b.e: x and y are the significands
\* brought to the exponent e, c compares them.  A b wholly below the bits
\* that decide the rounding of a (far) counts as a fraction of the lowest of
\* them.
FAddSigned(as, bs, x, y, e, far, c) ==
    Round(IF as = bs \/ c > 0 THEN as ELSE bs,
          IF as = bs THEN (IF far THEN x ELSE BigAdd(x, y))
          ELSE IF c > 0 THEN BigSub(x, y)
          ELSE BigSub(y, x),
          e, far /\ (as = bs \/ c > 0))

FAddShifted(as, bs, x, y, e, far) ==
    FAddSigned(as, bs, x, y, e, far, BigCmp(x, y))

FAddFar(a, b, far) ==
    FAddShifted(a.s, b.s, BigShl(a.m, IF far THEN 2 ELSE a.e - b.e),
                IF far THEN <<1>> ELSE b.m, IF far THEN a.e - 2 ELSE b.e, far)

FAddOrdered(a, b) == FAddFar(a, b, a.e - b.e > Precision + 2)

FAdd(a, b) ==
    IF a.s = 0 THEN b
    ELSE IF b.s = 0 THEN a
    ELSE FAddOrdered(IF a.e >= b.e THEN a ELSE b, IF a.e >= b.e THEN b ELSE a)

FSub(a, b) == FAdd(a, FNeg(b))

FMul(a, b) ==
    IF a.s = 0 \/ b.s = 0 THEN Zero
    ELSE Round(a.s * b.s, BigMul(a.m, b.m), a.e + b.e, FALSE)

FQuotient(s, e, quotient) == Round(s, quotient.q, e, quotient.more)

\* a / b for b # 0: the quotient of the significands to 60 bits after the
\* point, rounded once.
FDiv(a, b) ==
    IF a.s = 0 THEN Zero
    ELSE FQuotient(a.s * b.s, a.e - b.e - 60, BigDiv(BigShl(a.m, 60), b.m))

\* The largest r with r * r <= t, for 0 < t < 2^30, by Newton's iteration
\* from an r above it.
RECURSIVE IntRootFrom(_, _)
IntRootFrom(t, r) ==
    LET next == (r + t \div r) \div 2
    IN  IF next >= r THEN r ELSE IntRootFrom(t, next)

\* The same for a natural number n in digits, with whether n # r * r.
RECURSIVE RootFrom(_, _)
RootLast(n, r, quotient) ==
    [r |-> r, more |-> quotient.more \/ BigCmp(quotient.q, r) # 0]

RootNext(n, r, quotient, next) ==
    IF BigCmp(next, r) >= 0 THEN RootLast(n, r, quotient)
    ELSE RootFrom(n, next)

RootStep(n, r, quotient) ==
    RootNext(n, r, quotient, BigShr(BigAdd(r, quotient.q), 1))

RootFrom(n, r) == RootStep(n, r, BigDiv(n, r))

\* Math.sqrt(a) for a >= 0: the root of the significand with 60 or 61 bits
\* appended, whichever makes the exponent even, rounded once.  The
\* iteration starts from the root of the top 29 or 30 bits, plus one.
FRoot(root, e) == Round(1, root.r, e, root.more)

FSqrtFrom(n, e, top) ==
    FRoot(RootFrom(n, BigShl(Digits(IntRootFrom(top[2] * Base + top[1], Base) + 1),
                             42)),
          e)

FSqrtOf(n, e) == FSqrtFrom(n, e, BigShr(n, 84))

FSqrtOdd(a, odd) ==
    FSqrtOf(BigShl(a.m, IF odd THEN 61 ELSE 60),
            (IF odd THEN a.e - 61 ELSE a.e - 60) \div 2)

FSqrt(a) == IF a.s = 0 THEN Zero ELSE FSqrtOdd(a, a.e % 2 # 0)

\* The double nearest to n / d: a decimal literal of the source.
D(n, d) == FDiv(FInt(n), FInt(d))

One == [s |-> 1, m |-> <<0, 0, 0, 2^(Precision - 1 - 3 * DigitBits)>>,
        e |-> 1 - Precision]

\* a / 2^k
Halved(a, k) == IF a.s = 0 THEN a ELSE [a EXCEPT !.e = @ - k]

\* The double of the grid value n: Unit is a power of two, and dividing by
\* it lowers the exponent.
Grid(n) == Halved(FInt(n), BitLen(Digits(Unit)) - 1)

\* Math.hypot as the engine computes it: the values are divided by the
\* largest of them, their squares are added with a running compensation of
\* the rounding errors, and the root of the sum is multiplied back.
RECURSIVE KahanSum(_, _, _, _, _)
KahanNext(absValues, max, i, sum, summand, preliminary) ==
    KahanSum(absValues, max, i + 1, preliminary,
             FSub(FSub(preliminary, sum), summand))

KahanAdd(absValues, max, i, sum, summand) ==
    KahanNext(absValues, max, i, sum, summand, FAdd(sum, summand))

KahanTerm(absValues, max, i, sum, compensation, n) ==
    KahanAdd(absValues, max, i, sum, FSub(FMul(n, n), compensation))

KahanSum(absValues, max, i, sum, compensation) ==
    IF i > Len(absValues) THEN sum
    ELSE KahanTerm(absValues, max, i, sum, compensation, FDiv(absValues[i], max))

HypotOf(absValues, max) ==
    IF max.s = 0 THEN Zero
    ELSE FMul(FSqrt(KahanSum(absValues, max, 1, Zero, Zero)), max)

HypotAbs(absX, absY) == HypotOf(<<absX, absY>>, FMax(absX, absY))

Hypot(dx, dy) == HypotAbs(FAbs(dx), FAbs(dy))


(***************************************************************************)
(* Exact ratios of grid values, for the averages of the hand tracker.      *)
(***************************************************************************)
RECURSIVE Gcd(_, _)
Gcd(a, b) == IF b = 0 THEN a ELSE Gcd(b, a % b)

\* A JavaScript number that is a ratio of grid values: num / den, den > 0.
Rat(n, d) ==
    LET g == Gcd(Abs(n), Abs(d))
        s == IF d < 0 THEN -1 ELSE 1
    IN  [num |-> s * (n \div g), den |-> s * (d \div g)]


(***************************************************************************)
(* Input frames: what the hand tracker hands to processFrame.  A frame is  *)
(* described by: n, the number of detected hands; pose, the pose of the    *)
(* first hand; tip, its index tip; vec, its index knuckle-to-tip vector;   *)
(* sep and rise, the centre of the second hand minus the centre of the     *)
(* first, to the right and downwards, in units of 1 / (NumLandmarks *      *)
(* Unit); labels, the handedness labels.  Results(d) is the results object *)
(* so described: each hand its 21 landmarks, landmark i at position i + 1. *)
(***************************************************************************)
Pt(x, y) == [x |-> x, y |-> y]

PoseFingers ==
    [palm |-> <<TRUE, TRUE, TRUE, TRUE, TRUE>>,
     victory |-> <<FALSE, TRUE, TRUE, FALSE, FALSE>>,
     fist |-> <<FALSE, FALSE, FALSE, FALSE, FALSE>>,
     point |-> <<FALSE, TRUE, FALSE, FALSE, FALSE>>,
     unknown |-> <<FALSE, FALSE, TRUE, TRUE, FALSE>>]

\* fs: extended or not per finger (thumb, index, middle, ring, pinky);
\* tip and mcp: the index tip (8) and index knuckle (5); every other
\* landmark sits at base, each pip below or above its tip as fs says.
Hand(fs, tip, mcp, base) ==
    LET pip(k, tipY) == Pt(base.x, IF fs[k] THEN tipY + 30 ELSE tipY - 30)
    IN  <<base,
          base, base, pip(1, base.y), base,
          mcp, pip(2, tip.y), base, tip,
          base, pip(3, base.y), base, base,
          base, pip(4, base.y), base, base,
          base, pip(5, base.y), base, base>>

\* The same hand moved by v, its wrist by k more: the centre moves by
\* v + k / NumLandmarks.
RECURSIVE ShiftFrom(_, _, _, _)
ShiftFrom(h, v, k, i) ==
    IF i > Len(h) THEN << >>
    ELSE <<Pt(h[i].x + v.x + (IF i = 1 THEN k.x ELSE 0),
              h[i].y + v.y + (IF i = 1 THEN k.y ELSE 0))>>
         \o ShiftFrom(h, v, k, i + 1)

FirstHand(d) ==
    Hand(PoseFingers[d.pose], d.tip,
         Pt(d.tip.x - d.vec.x, d.tip.y - d.vec.y), Pt(500, 600))

Results(d) ==
    [multiHandLandmarks |->
        IF d.n = 0 THEN << >>
        ELSE IF d.n = 1 THEN <<FirstHand(d)>>
        ELSE <<FirstHand(d),
               ShiftFrom(FirstHand(d),
                         Pt(d.sep \div NumLandmarks, d.rise \div NumLandmarks),
                         Pt(d.sep % NumLandmarks, d.rise % NumLandmarks), 1)>>,
     multiHandedness |-> [i \in 1..Len(d.labels) |-> [label |-> d.labels[i]]]]

\* Index tip positions: P1 is within 0.002 of P0, P2 is further from both.
P0 == Pt(512, 512)

P1 == Pt(514, 512)

P2 == Pt(522, 516)

NoFrame == [n |-> 0, pose |-> "none", tip |-> P0, vec |-> Pt(0, 0), sep |-> 0,
            rise |-> 0, labels |-> << >>]

OneHand(pose, tip, vec) ==
    [n |-> 1, pose |-> pose, tip |-> tip, vec |-> vec, sep |-> 0, rise |-> 0,
     labels |-> <<"Right">>]

TwoHandsAt(pose, tip, vec, sep, rise, labels) ==
    [n |-> 2, pose |-> pose, tip |-> tip, vec |-> vec, sep |-> sep,
     rise |-> rise, labels |-> labels]

\* Two hands side by side.
TwoHands(pose, tip, vec, sep, labels) ==
    TwoHandsAt(pose, tip, vec, sep, 0, labels)

Up == Pt(0, -60)

NoHandsFrames == {NoFrame}

\* Palm, Victory, an unclassifiable pose, pointing right, left and up, a
\* fist at three tip positions.
OneHandFrames ==
    {OneHand("palm", P0, Up), OneHand("victory", P0, Up),
     OneHand("unknown", P0, Up),
     OneHand("point", P0, Pt(60, 0)), OneHand("point", P0, Pt(-60, 0)),
     OneHand("point", P1, Up),
     OneHand("fist", P0, Up), OneHand("fist", P1, Up), OneHand("fist", P2, Up)}

\* A left and a right hand side by side, their centres 4200, 9000 and 9003
\* units apart: from 9000 to 9003 the exact ratio puts scaleFactor 0.0005
\* above 1, from 9003 to 9000 less than 0.0005 below, and between 4200 and
\* the others the ratio is clamped.  A left and a right hand 2580 units
\* apart and 50 units higher or lower: 2580 units are less than 0.12, the
\* diagonal is more.  One open palm seen twice 1071 units (0.05) apart; two
\* right hands, the first pointing right.
TwoHandFrames ==
    {TwoHands("fist", P0, Up, sep, <<"Left", "Right">>) : sep \in {4200, 9003}}
    \cup {TwoHands("fist", P0, Up, 9000, <<"right", "left">>),
          TwoHandsAt("fist", P0, Up, 2580, 50, <<"Left", "Right">>),
          TwoHands("palm", P0, Up, 1071, <<"Left", "Right">>),
          TwoHands("point", P0, Pt(60, 0), 4200, <<"Right", "Right">>)}


(***************************************************************************)
(* The engine: its fields as a record, its methods as operators on it.     *)
(* out is the list of events handed to emit during one processFrame call.  *)
(***************************************************************************)
\* The event names the engine emits, and one that Object.prototype defines.
EventNames == {"swipe", "zoom", "rotate", "reset", "unlock", "toString"}

\* this.eventCallbacks = {}: a plain object without own properties.
NoCallbacks == [name \in EventNames |-> Null]

\* What a plain object inherits: a property lookup that finds no own
\* property continues in Object.prototype.
ObjectPrototype == [toString |-> "Object.prototype.toString"]

\* this.eventCallbacks[event]
Lookup(callbacks, event) ==
    IF callbacks[event] # Null THEN callbacks[event]
    ELSE IF event \in DOMAIN ObjectPrototype THEN Some(ObjectPrototype[event])
    ELSE Null

\* constructor: the fields it assigns; the timers it never assigns are
\* undefined until first written.  calls lists the handler invocations.
NewEngine ==
    [state |-> "idle",
     eventCallbacks |-> NoCallbacks,
     calls |-> << >>,
     gestureStartTime |-> Null,
     lastHandPosition |-> Null,
     pinchStartDistance |-> Null,
     palmStartTime |-> Null,
     switchCooldown |-> Null,
     lastMoveTime |-> Null,
     swipeCooldownTimestamp |-> Null,
     out |-> << >>]

on(e, event, callback) == [e EXCEPT !.eventCallbacks[event] = Some(callback)]

emit(e, ev) ==
    LET callback == Lookup(e.eventCallbacks, ev.type)
    IN  [e EXCEPT !.out = Append(@, ev),
                  !.calls = IF callback # Null
                            THEN Append(@, [handler |-> Val(callback), data |-> ev])
                            ELSE @]

\* resetState that also forgets the swipe cooldown.
resetStateForgetsCooldown(e) ==
    LET e1 == IF e.state = "locked" THEN emit(e, [type |-> "unlock"]) ELSE e
    IN  [e1 EXCEPT !.state = "idle",
                   !.lastHandPosition = Null,
                   !.pinchStartDistance = Null,
                   !.gestureStartTime = Null,
                   !.switchCooldown = Null]

\* resetState that leaves the pinch baseline in place.
resetStateKeepsPinch(e) ==
    LET e1 == IF e.state = "locked" THEN emit(e, [type |-> "unlock"]) ELSE e
    IN  [e1 EXCEPT !.state = "idle",
                   !.lastHandPosition = Null,
                   !.gestureStartTime = Null]

\* resetState that emits Unlock whatever the state was.
resetStateAlwaysUnlocks(e) ==
    [emit(e, [type |-> "unlock"]) EXCEPT !.state = "idle",
                                         !.lastHandPosition = Null,
                                         !.pinchStartDistance = Null,
                                         !.gestureStartTime = Null]

resetState(e) ==
    LET e1 == IF e.state = "locked" THEN emit(e, [type |-> "unlock"]) ELSE e
    IN  [e1 EXCEPT !.state = "idle",
                   !.lastHandPosition = Null,
                   !.pinchStartDistance = Null,
                   !.gestureStartTime = Null]

\* landmarks[i] of the source: the landmark list is a sequence here, so
\* the source's index i is position i + 1.
LM(landmarks, i) == landmarks[i + 1]

\* Sum of the landmark coordinates: sums of grid values are exact.
RECURSIVE SumX(_, _)
SumX(landmarks, i) ==
    IF i < 0 THEN 0 ELSE LM(landmarks, i).x + SumX(landmarks, i - 1)

RECURSIVE SumY(_, _)
SumY(landmarks, i) ==
    IF i < 0 THEN 0 ELSE LM(landmarks, i).y + SumY(landmarks, i - 1)

\* What has been computed once for the input frames, and value otherwise.
Memo(table, key, value) == IF key \in DOMAIN table THEN table[key] ELSE value

\* sumX / landmarks.length for a sum of grid values.
CenterOf(sum) == FDiv(Grid(sum), FInt(NumLandmarks))

getHandCenter(landmarks) ==
    [x |-> CenterOf(SumX(landmarks, NumLandmarks - 1)),
     y |-> CenterOf(SumY(landmarks, NumLandmarks - 1))]

\* Math.hypot(hand1Center.x - hand2Center.x, hand1Center.y - hand2Center.y)
Separation(hand1Center, hand2Center) ==
    Hypot(FSub(hand1Center.x, hand2Center.x), FSub(hand1Center.y, hand2Center.y))

CenterDistanceOf(hands) ==
    Separation(getHandCenter(hands[1]), getHandCenter(hands[2]))

\* The distances of the input frames, computed once.
CenterDistanceTable ==
    [hands \in {Results(d).multiHandLandmarks : d \in TwoHandFrames} |->
        CenterDistanceOf(hands)]

\* Distance between the centres of the first two hands.
CenterDistance(hands) == Memo(CenterDistanceTable, hands, CenterDistanceOf(hands))

fingerTips == <<4, 8, 12, 16, 20>>

fingerPips == <<3, 6, 10, 14, 18>>

\* tip.y < pip.y + 0.02
getFingerStates(landmarks) ==
    [i \in 1..5 |->
        100 * (LM(landmarks, fingerTips[i]).y - LM(landmarks, fingerPips[i]).y)
            < 2 * Unit]

detectGesture(landmarks) ==
    LET fingerStates == getFingerStates(landmarks)
        extendedCount == Cardinality({i \in 1..5 : fingerStates[i]})
    IN  IF extendedCount >= 4 THEN "palm"
        ELSE IF fingerStates[2] /\ fingerStates[3]
                /\ ~fingerStates[4] /\ ~fingerStates[5] THEN "victory"
        ELSE IF extendedCount = 0 \/ (extendedCount = 1 /\ fingerStates[1])
             THEN "fist"
        ELSE IF fingerStates[2] THEN "point"
        ELSE IF extendedCount = 1 THEN "point"
        ELSE "unknown"

\* rawFactor and scaleFactor of a frame at distance after one at
\* prevDistance > 0, and whether Math.abs(scaleFactor - 1.0) > 0.0005.
PinchEmits(scaleFactor) ==
    [scaleFactor |-> scaleFactor,
     emits |-> FLt(D(5, 10000), FAbs(FSub(scaleFactor, One)))]

PinchScaled(rawFactor) ==
    PinchEmits(FAdd(One, FMul(FSub(rawFactor, One), D(15, 10))))

PinchOf(distance, prevDistance) ==
    PinchScaled(FMax(D(85, 100), FMin(D(115, 100), FDiv(distance, prevDistance))))

\* The same for the distances of the input frames, computed once.
PinchTableOver(distances) ==
    [pair \in {<<distance, prevDistance>> :
                   distance \in distances,
                   prevDistance \in {p \in distances : p.s > 0}} |->
        PinchOf(pair[1], pair[2])]

Range(f) == {f[k] : k \in DOMAIN f}

PinchTable == PinchTableOver(Range(CenterDistanceTable))

Pinch(distance, prevDistance) ==
    Memo(PinchTable, <<distance, prevDistance>>, PinchOf(distance, prevDistance))

\* if (Math.abs(scaleFactor - 1.0) > 0.0005) this.emit('zoom', { scaleFactor })
EmitZoom(e, pinch) ==
    IF pinch.emits THEN emit(e, [type |-> "zoom", scaleFactor |-> pinch.scaleFactor])
    ELSE e

\* if (prevDistance > 0) { ... }
ZoomFrom(e, prevDistance, distance) ==
    IF prevDistance.s > 0 THEN EmitZoom(e, Pinch(distance, prevDistance)) ELSE e

\* handleTwoHandGestures that keeps the first baseline instead of moving it
\* to the current distance every frame.
PinchToFixedBaseline(e, distance) ==
    IF e.pinchStartDistance = Null
    THEN [e EXCEPT !.pinchStartDistance = Some(distance), !.state = "pinching"]
    ELSE ZoomFrom(e, Val(e.pinchStartDistance), distance)

handleTwoHandGesturesFixedBaseline(e, hands) ==
    PinchToFixedBaseline(e, CenterDistance(hands))

\* handleTwoHandGestures whose first frame records the baseline without
\* entering the pinching state.
PinchToNoState(e, distance) ==
    IF e.pinchStartDistance = Null
    THEN [e EXCEPT !.pinchStartDistance = Some(distance)]
    ELSE [ZoomFrom(e, Val(e.pinchStartDistance), distance) EXCEPT
             !.pinchStartDistance = Some(distance)]

handleTwoHandGesturesNoState(e, hands) ==
    PinchToNoState(e, CenterDistance(hands))

\* handleTwoHandGestures from the distance on.
PinchTo(e, distance) ==
    IF e.pinchStartDistance = Null
    THEN [e EXCEPT !.pinchStartDistance = Some(distance), !.state = "pinching"]
    ELSE [ZoomFrom(e, Val(e.pinchStartDistance), distance) EXCEPT
             !.pinchStartDistance = Some(distance)]

handleTwoHandGestures(e, hands) == PinchTo(e, CenterDistance(hands))

\* Math.hypot(dx, dy) > 0.002 for the index tip movement, compared exactly.
MovedMoreThanStill(dx, dy) ==
    1000 * 1000 * Min(dx * dx + dy * dy, 1000) > 2 * 2 * Unit * Unit

\* The horizontality test without the relaxed 0.8 ratio: |dx| > |dy|.
IsHorizontalUnrelaxed(dx, dy) ==
    Abs(dx) > Abs(dy) /\ 100 * Abs(dx) > 4 * Unit

\* |dx| > |dy| * 0.8 && |dx| > 0.04 for the knuckle-to-tip vector.
IsHorizontal(dx, dy) ==
    10 * Abs(dx) > 8 * Abs(dy) /\ 100 * Abs(dx) > 4 * Unit

\* Section 3 with a latch that does not record the gesture start time.
InteractionLatchUntimed(e, gesture, indexTip, t) ==
    IF gesture = "fist" \/ gesture = "point"
    THEN IF e.lastHandPosition = Null
         THEN [e EXCEPT !.lastHandPosition =
                            Some([x |-> indexTip.x, y |-> indexTip.y,
                                  startX |-> indexTip.x, startY |-> indexTip.y]),
                        !.state = "tracking"]
         ELSE LET last == Val(e.lastHandPosition)
                  currentX == indexTip.x
                  currentY == indexTip.y
                  elapsed == t - Num(e.gestureStartTime)
                  deltaX == currentX - last.x
                  deltaY == currentY - last.y
                  e1 == IF elapsed > 50
                        THEN emit([e EXCEPT !.state = "rotating"],
                                  [type |-> "rotate",
                                   deltaX |-> 5 * deltaX, deltaY |-> 5 * deltaY])
                        ELSE e
              IN  IF MovedMoreThanStill(deltaX, deltaY)
                  THEN [e1 EXCEPT !.lastMoveTime = Some(t),
                                  !.lastHandPosition =
                                      Some([last EXCEPT !.x = currentX, !.y = currentY])]
                  ELSE IF Truthy(e1.lastMoveTime) /\ t - Val(e1.lastMoveTime) > 300
                  THEN [resetState(e1) EXCEPT !.lastMoveTime = Null]
                  ELSE [e1 EXCEPT !.lastHandPosition =
                                      Some([last EXCEPT !.x = currentX, !.y = currentY])]
    ELSE resetState(e)

\* Section 3 without the resetState() for the other poses.
InteractionIgnoresOthers(e, gesture, indexTip, t) ==
    IF gesture = "fist" \/ gesture = "point"
    THEN IF e.lastHandPosition = Null
         THEN [e EXCEPT !.lastHandPosition =
                            Some([x |-> indexTip.x, y |-> indexTip.y,
                                  startX |-> indexTip.x, startY |-> indexTip.y]),
                        !.gestureStartTime = Some(t),
                        !.state = "tracking"]
         ELSE LET last == Val(e.lastHandPosition)
                  currentX == indexTip.x
                  currentY == indexTip.y
                  elapsed == t - Num(e.gestureStartTime)
                  deltaX == currentX - last.x
                  deltaY == currentY - last.y
                  e1 == IF elapsed > 50
                        THEN emit([e EXCEPT !.state = "rotating"],
                                  [type |-> "rotate",
                                   deltaX |-> 5 * deltaX, deltaY |-> 5 * deltaY])
                        ELSE e
              IN  IF MovedMoreThanStill(deltaX, deltaY)
                  THEN [e1 EXCEPT !.lastMoveTime = Some(t),
                                  !.lastHandPosition =
                                      Some([last EXCEPT !.x = currentX, !.y = currentY])]
                  ELSE IF Truthy(e1.lastMoveTime) /\ t - Val(e1.lastMoveTime) > 300
                  THEN [resetState(e1) EXCEPT !.lastMoveTime = Null]
                  ELSE [e1 EXCEPT !.lastHandPosition =
                                      Some([last EXCEPT !.x = currentX, !.y = currentY])]
    ELSE e

\* Section 3 of handleSingleHandGestures: Fist/Point -> rotate only.
Interaction(e, gesture, indexTip, t) ==
    IF gesture = "fist" \/ gesture = "point"
    THEN IF e.lastHandPosition = Null
         THEN [e EXCEPT !.lastHandPosition =
                            Some([x |-> indexTip.x, y |-> indexTip.y,
                                  startX |-> indexTip.x, startY |-> indexTip.y]),
                        !.gestureStartTime = Some(t),
                        !.state = "tracking"]
         ELSE LET last == Val(e.lastHandPosition)
                  currentX == indexTip.x
                  currentY == indexTip.y
                  elapsed == t - Num(e.gestureStartTime)
                  deltaX == currentX - last.x
                  deltaY == currentY - last.y
                  e1 == IF elapsed > 50
                        THEN emit([e EXCEPT !.state = "rotating"],
                                  [type |-> "rotate",
                                   deltaX |-> 5 * deltaX, deltaY |-> 5 * deltaY])
                        ELSE e
              IN  IF MovedMoreThanStill(deltaX, deltaY)
                  THEN [e1 EXCEPT !.lastMoveTime = Some(t),
                                  !.lastHandPosition =
                                      Some([last EXCEPT !.x = currentX, !.y = currentY])]
                  ELSE IF Truthy(e1.lastMoveTime) /\ t - Val(e1.lastMoveTime) > 300
                  THEN [resetState(e1) EXCEPT !.lastMoveTime = Null]
                  ELSE [e1 EXCEPT !.lastHandPosition =
                                      Some([last EXCEPT !.x = currentX, !.y = currentY])]
    ELSE resetState(e)

\* Section 2 without the return that ends the frame after a swipe.
SwitchModelFallsThrough(e, gesture, landmarks, t) ==
    LET mcp == LM(landmarks, 5)
        tip == LM(landmarks, 8)
        dx == tip.x - mcp.x
        dy == tip.y - mcp.y
    IN  IF gesture = "point" /\ IsHorizontal(dx, dy)
           /\ (~Truthy(e.switchCooldown) \/ t - Val(e.switchCooldown) > 1200)
        THEN Interaction([emit(e, [type |-> "swipe",
                                   direction |-> IF dx > 0 THEN "RIGHT" ELSE "LEFT"])
                             EXCEPT !.switchCooldown = Some(t),
                                    !.state = "switching"],
                         gesture, LM(landmarks, 8), t)
        ELSE Interaction(e, gesture, LM(landmarks, 8), t)

\* Section 2: a horizontal Point switches the model.
SwitchModel(e, gesture, landmarks, t) ==
    LET mcp == LM(landmarks, 5)
        tip == LM(landmarks, 8)
        dx == tip.x - mcp.x
        dy == tip.y - mcp.y
    IN  IF gesture = "point" /\ IsHorizontal(dx, dy)
        THEN IF ~Truthy(e.switchCooldown) \/ t - Val(e.switchCooldown) > 1200
             THEN [emit(e, [type |-> "swipe",
                            direction |-> IF dx > 0 THEN "RIGHT" ELSE "LEFT"])
                      EXCEPT !.switchCooldown = Some(t),
                             !.state = "switching"]
             ELSE e
        ELSE Interaction(e, gesture, LM(landmarks, 8), t)

\* Section 1 without the test that the engine is not idle.
PalmHoldFromIdle(e, gesture, landmarks, t) ==
    IF gesture = "palm"
    THEN LET e1 == IF ~Truthy(e.palmStartTime)
                   THEN [e EXCEPT !.palmStartTime = Some(t)] ELSE e
         IN  IF t - Val(e1.palmStartTime) > 1200
             THEN [resetState(emit(e1, [type |-> "reset"]))
                      EXCEPT !.palmStartTime = Null]
             ELSE e1
    ELSE SwitchModel([e EXCEPT !.palmStartTime = Null], gesture, landmarks, t)

\* Section 1: Palm hold -> reset.
PalmHold(e, gesture, landmarks, t) ==
    IF gesture = "palm"
    THEN LET e1 == IF ~Truthy(e.palmStartTime)
                   THEN [e EXCEPT !.palmStartTime = Some(t)] ELSE e
         IN  IF t - Val(e1.palmStartTime) > 1200 /\ e1.state # "idle"
             THEN [resetState(emit(e1, [type |-> "reset"]))
                      EXCEPT !.palmStartTime = Null]
             ELSE e1
    ELSE SwitchModel([e EXCEPT !.palmStartTime = Null], gesture, landmarks, t)

\* t is the value of Date.now() during the call.
handleSingleHandGestures(e, landmarks, t) ==
    IF Truthy(e.swipeCooldownTimestamp) /\ t < Val(e.swipeCooldownTimestamp)
    THEN e
    ELSE PalmHold(e, detectGesture(landmarks), landmarks, t)

\* The literals 0.12 and 0.012.
GhostLimit == D(12, 100)

GhostLimitTenth == D(12, 1000)

\* The proximity check with the threshold 0.012.
TooCloseTenth(hands) == FLt(CenterDistance(hands), GhostLimitTenth)

\* dist < 0.12 between the centres of the first two detections.
TooClose(hands) == FLt(CenterDistance(hands), GhostLimit)

HasLeftAndRight(handedness) ==
    LET labels == {handedness[i].label : i \in 1..Len(handedness)}
        hasLeft == "Left" \in labels \/ "left" \in labels
        hasRight == "Right" \in labels \/ "right" \in labels
    IN  hasLeft /\ hasRight

\* Which branch of processFrame a frame takes.
Route(results) ==
    LET hands == results.multiHandLandmarks
    IN  IF Len(hands) = 0 THEN "nohands"
        ELSE IF Len(hands) >= 2
             THEN IF TooClose(hands) THEN "ghost"
                  ELSE IF HasLeftAndRight(results.multiHandedness) THEN "twohand"
                  ELSE "fallback"
        ELSE "single"

\* hands[1] is the source's hands[0].
processFrame(e, results, t) ==
    LET hands == results.multiHandLandmarks
        route == Route(results)
    IN  IF route = "nohands" THEN resetState(e)
        ELSE IF route = "twohand" THEN handleTwoHandGestures(e, hands)
        ELSE handleSingleHandGestures(e, hands[1], t)


(***************************************************************************)
(* State: the engine's fields, the clock, the last frame delivered and the *)
(* events it made the engine emit, and what an observer of the event       *)
(* handlers and of the frame stream remembers.                             *)
(***************************************************************************)
VARIABLES
    now,                     \* Date.now()
    state, gestureStartTime, lastHandPosition, pinchStartDistance,
    palmStartTime, switchCooldown, lastMoveTime, swipeCooldownTimestamp,
    frames,                  \* number of frames delivered
    frame,                   \* the last frame delivered
    events,                  \* events emitted by the last processFrame call
    lastSwipe,               \* when the swipe handler was last called
    palmRun,                 \* the current run of single-hand Palm frames
    stillSince,              \* since when Rotating with a motionless hand
    eventCallbacks,          \* the handler registered under each event name
    invoked,                 \* handler invocations of the last call
    registered,              \* the on() calls made so far
    probe,                   \* a hand handed to detectGesture on its own
    classified,              \* what detectGesture returned for it
    currentState, previousState, stateStartTime,   \* GestureStateMachine
    updateResult,            \* what its last update call returned
    updates,                 \* number of update and reset calls made
    onResultsCallback,       \* HandTracker: the callback init was given
    landmarkHistory,         \* the buffered raw sets per hand slot
    smoothed,                \* the hands of the results its callback was last
                             \* called with
    rawLog,                  \* per hand slot, since when it is occupied and
                             \* the raw sets smoothLandmarks has been given
    twin,                    \* a second engine, on a clock that started at 0
    modelManager,            \* ModelManager: models, currentIndex, loadedData
    app,                     \* App: transform, mode, model shown, loads awaited
    morphController,         \* ParticleMorphController: state, progress
    mediaPipe,               \* MediaPipeManager: ready, callback, sends in flight
    steps                    \* number of calls made on these four objects

engineVars == <<state, gestureStartTime, lastHandPosition, pinchStartDistance,
                palmStartTime, switchCooldown, lastMoveTime,
                swipeCooldownTimestamp>>

frameVars == <<now, engineVars, frames, frame, events, lastSwipe, palmRun,
               stillSince, eventCallbacks, invoked>>

detectVars == <<probe, classified>>

machineVars == <<currentState, previousState, stateStartTime, updateResult,
                 updates>>

smootherVars == <<onResultsCallback, landmarkHistory, smoothed, rawLog>>

viewerVars == <<modelManager, app, morphController, mediaPipe, steps>>

vars == <<frameVars, registered, detectVars, machineVars, smootherVars, twin,
          viewerVars>>

MaxFrames == 3

\* Milliseconds between two frames.
Deltas == {1, 301, 1201}

Epoch == 10^3

\* The engine object as the record the method operators work on.
Engine ==
    [state |-> state,
     gestureStartTime |-> gestureStartTime,
     lastHandPosition |-> lastHandPosition,
     pinchStartDistance |-> pinchStartDistance,
     palmStartTime |-> palmStartTime,
     switchCooldown |-> switchCooldown,
     lastMoveTime |-> lastMoveTime,
     swipeCooldownTimestamp |-> swipeCooldownTimestamp,
     eventCallbacks |-> eventCallbacks,
     calls |-> << >>,
     out |-> << >>]

\* The engine's fields are those of e, and no frame has been delivered.
EngineIs(e) ==
    /\ now = Epoch
    /\ state = e.state
    /\ gestureStartTime = e.gestureStartTime
    /\ lastHandPosition = e.lastHandPosition
    /\ pinchStartDistance = e.pinchStartDistance
    /\ palmStartTime = e.palmStartTime
    /\ switchCooldown = e.switchCooldown
    /\ lastMoveTime = e.lastMoveTime
    /\ swipeCooldownTimestamp = e.swipeCooldownTimestamp
    /\ frames = 0
    /\ frame = NoFrame
    /\ events = << >>
    /\ lastSwipe = Null
    /\ palmRun = Null
    /\ stillSince = Null
    /\ eventCallbacks = e.eventCallbacks
    /\ invoked = << >>

\* The engine as constructed, before any frame.
Constructed ==
    /\ EngineIs(NewEngine)
    /\ registered = << >>

\* No hand has been handed to detectGesture on its own.
NoProbe ==
    /\ probe = Null
    /\ classified = Null

\* GestureStateMachine constructor, at the time the clock starts with.
MachineNew ==
    /\ currentState = "IDLE"
    /\ previousState = "IDLE"
    /\ stateStartTime = Epoch
    /\ updateResult = Null
    /\ updates = 0

\* ModelManager constructor; userModel, which init() sets to null, is Null
\* from the start.
NewModelManager ==
    [models |-> << >>, currentIndex |-> 0, loadedData |-> {}, userModel |-> Null]

\* The App component as first rendered, its effects not yet run:
\* transformRef, appMode and currentModel as their initial values, no
\* model shown (shown is what setModel was last given: the path of a
\* model, or "user" for uploaded vertices).  phase is where init() stands,
\* rendered the appMode of the last render committed, which is the one the
\* registered handlers close over.  awaited lists the loader calls not yet
\* settled and resuming the async functions in the microtask queue, each
\* with the function that waits and the path of its data; uploading
\* counts the uploaded files the loader is parsing; firstTimer and timers
\* are the pending timeouts of 500 ms and of 800 ms; animating says that
\* the animation loop is running; handled is the input handled last.
NewApp ==
    [transform |-> [rotation |-> [x |-> 0, y |-> 0], scale |-> One,
                    isLocked |-> FALSE],
     appMode |-> "showcase",
     rendered |-> "showcase",
     shown |-> Null,
     currentModel |-> "Loading...",
     phase |-> "rendered",
     awaited |-> << >>,
     resuming |-> << >>,
     uploading |-> 0,
     firstTimer |-> FALSE,
     timers |-> << >>,
     animating |-> FALSE,
     handled |-> Null]

\* ParticleMorphController constructor.
NewMorphController ==
    [state |-> "IDLE", progress |-> Zero, targetProgress |-> Zero]

\* MediaPipeManager constructor; inFlight counts the sends not yet settled,
\* heard the calls of the results listener, and log lists what the manager
\* has done to the detector and the callback.
NewMediaPipeManager ==
    [hands |-> Null, camera |-> Null, ready |-> FALSE, onResultsCb |-> Null,
     inFlight |-> 0, heard |-> 0, log |-> << >>]

ViewerNew ==
    /\ modelManager = NewModelManager
    /\ app = NewApp
    /\ morphController = NewMorphController
    /\ mediaPipe = NewMediaPipeManager
    /\ steps = 0

\* HandTracker constructor: this.onResultsCallback = null and
\* this.landmarkHistory = [].
NewHandTracker == [onResultsCallback |-> Null, landmarkHistory |-> <<Null, Null>>]

TrackerNew ==
    /\ onResultsCallback = NewHandTracker.onResultsCallback
    /\ landmarkHistory = NewHandTracker.landmarkHistory
    /\ smoothed = << >>
    /\ rawLog = <<Null, Null>>

\* The objects other than the engine, as constructed, and no second engine.
Others ==
    /\ MachineNew
    /\ TrackerNew
    /\ twin = Null
    /\ ViewerNew

Init ==
    /\ Constructed
    /\ NoProbe
    /\ Others

(***************************************************************************)
(* What the frame descriptions say about a frame, independently of the     *)
(* engine's own tests.                                                     *)
(***************************************************************************)
\* Two detections whose centres are less than 0.12 = 3 / 25 apart, in exact
\* arithmetic.  With q the square of the distance in units of
\* 1 / (NumLandmarks * Unit), that is 25^2 * q / Unit^2 < (3 * NumLandmarks)^2,
\* and a ratio is less than an integer if and only if its integer part is;
\* the integer part is taken in two steps to stay within the integers.
IsGhostFrame(d) ==
    LET q == d.sep * d.sep + d.rise * d.rise
        u == Unit * Unit
    IN  /\ d.n >= 2
        /\ 25 * 25 * (q \div u) + (25 * 25 * (q % u)) \div u
              < 3 * 3 * NumLandmarks * NumLandmarks

\* Two detections far enough apart, one labelled left and one right.
IsTwoHandFrame(d) ==
    /\ d.n >= 2
    /\ ~IsGhostFrame(d)
    /\ \E i, j \in 1..Len(d.labels) :
          /\ d.labels[i] \in {"Left", "left"}
          /\ d.labels[j] \in {"Right", "right"}

\* A frame whose first hand is what the engine looks at.
IsSingleHandFrame(d) == d.n >= 1 /\ ~IsTwoHandFrame(d)

IsPalmFrame(d) == IsSingleHandFrame(d) /\ d.pose = "palm"

\* A Point whose knuckle-to-tip vector is horizontal and long enough.
IsSwipeFrame(d) ==
    /\ IsSingleHandFrame(d)
    /\ d.pose = "point"
    /\ 10 * Abs(d.vec.x) > 8 * Abs(d.vec.y)
    /\ 100 * Abs(d.vec.x) > 4 * Unit

\* A Fist or Point frame whose index tip is within 0.002 of position p.
IsStillFrame(d, p) ==
    /\ IsSingleHandFrame(d)
    /\ d.pose \in {"fist", "point"}
    /\ 250000 * ((d.tip.x - p.x) * (d.tip.x - p.x)
                 + (d.tip.y - p.y) * (d.tip.y - p.y)) <= Unit * Unit

Count(evs, type) == Cardinality({i \in 1..Len(evs) : evs[i].type = type})

\* The results objects of the frames above, built once.
FrameTable ==
    [d \in NoHandsFrames \cup OneHandFrames \cup TwoHandFrames |-> Results(d)]

ResultsOf(d) == IF d \in DOMAIN FrameTable THEN FrameTable[d] ELSE Results(d)

\* The distance between the centres of the two hands of frame d.
FrameDistance(d) == CenterDistance(ResultsOf(d).multiHandLandmarks)

\* One processFrame call: the clock has advanced by dt and processFrame runs
\* to completion on results, the frame d describes or what the hand tracker
\* has made of it.
ProcessAs(results, d, dt, max) ==
    /\ frames < max
    /\ now' = now + dt
    /\ frames' = frames + 1
    /\ frame' = d
    /\ \E e \in {processFrame(Engine, results, now + dt)} :
           /\ state' = e.state
           /\ gestureStartTime' = e.gestureStartTime
           /\ lastHandPosition' = e.lastHandPosition
           /\ pinchStartDistance' = e.pinchStartDistance
           /\ palmStartTime' = e.palmStartTime
           /\ switchCooldown' = e.switchCooldown
           /\ lastMoveTime' = e.lastMoveTime
           /\ swipeCooldownTimestamp' = e.swipeCooldownTimestamp
           /\ events' = e.out
           /\ eventCallbacks' = e.eventCallbacks
           /\ invoked' = e.calls
           /\ lastSwipe' = IF Count(e.out, "swipe") > 0
                           THEN Some(now + dt) ELSE lastSwipe
           /\ palmRun' =
                IF ~IsPalmFrame(d) THEN Null
                ELSE IF palmRun = Null
                THEN Some([start |-> now + dt, from |-> state,
                           resets |-> Count(e.out, "reset")])
                ELSE Some([Val(palmRun) EXCEPT
                              !.resets = @ + Count(e.out, "reset")])
           /\ stillSince' =
                IF e.state # "rotating" THEN Null
                ELSE IF /\ stillSince # Null
                        /\ lastHandPosition # Null
                        /\ IsStillFrame(d, Val(lastHandPosition))
                THEN stillSince
                ELSE Some(now + dt)

Process(d, dt, max) == ProcessAs(ResultsOf(d), d, dt, max)

\* processFrame called on an engine that stands alone.
Feed(d, dt, max) ==
    /\ Process(d, dt, max)
    /\ UNCHANGED <<registered, detectVars, machineVars, smootherVars, twin,
                   viewerVars>>

FrameNoHands == \E d \in NoHandsFrames, dt \in Deltas : Feed(d, dt, MaxFrames)

FrameOneHand == \E d \in OneHandFrames, dt \in Deltas : Feed(d, dt, MaxFrames)

FrameTwoHands == \E d \in TwoHandFrames, dt \in Deltas : Feed(d, dt, MaxFrames)

Next == FrameNoHands \/ FrameOneHand \/ FrameTwoHands

Spec == Init /\ [][Next]_vars

TypeOK ==
    /\ state \in {"idle", "tracking", "rotating", "switching", "pinching", "locked"}
    /\ frames \in 0..(MaxFrames + 1)
    /\ Len(events) <= 2


(***************************************************************************)
(* Handedness labels: two fists 200 grid units apart, each detection       *)
(* labelled in any of the spellings a tracker may use.                     *)
(***************************************************************************)
HandLabels == {"Left", "left", "LEFT", "Right", "right", "RIGHT"}

LabelFrames ==
    {TwoHands("fist", P0, Up, 4200, <<a, b>>) : a, b \in HandLabels}

MaxLabelFrames == 2

FrameLabelled ==
    \E d \in LabelFrames, dt \in {1, 301} : Feed(d, dt, MaxLabelFrames)

LabelSpec == Init /\ [][FrameLabelled]_vars

(***************************************************************************)
(* Time gates: one hand, a fist at two tip positions or an open palm,      *)
(* frames 49, 50, 51 or 1200 ms apart.                                     *)
(***************************************************************************)
TimingFrames ==
    {OneHand("fist", P0, Up), OneHand("fist", P2, Up), OneHand("palm", P0, Up)}

TimingDeltas == {49, 50, 51, 1200}

MaxTimingFrames == 3

FrameTimed ==
    \E d \in TimingFrames, dt \in TimingDeltas : Feed(d, dt, MaxTimingFrames)

TimingSpec == Init /\ [][FrameTimed]_vars

(***************************************************************************)
(* A camera at 30 frames per second: one pointing hand, not horizontal     *)
(* enough to switch models, every 33 ms, its index tip 0.01 further right  *)
(* in each frame (10 grid units, the grid value nearest 0.01).             *)
(***************************************************************************)
TipStep == Unit \div 100

PointStarts ==
    {OneHand("point", Pt(x, y), v) :
        x \in {100, 300, 512, 700}, y \in {300, 512},
        v \in {Pt(0, -60), Pt(20, -60), Pt(-20, -60)}}

MaxPointFrames == 5

FramePointing ==
    \E d \in IF frames = 0 THEN PointStarts
             ELSE {[frame EXCEPT !.tip = Pt(@.x + TipStep, @.y)]} :
        Feed(d, 33, MaxPointFrames)

PointSpec == Init /\ [][FramePointing]_vars

(***************************************************************************)
(* Two engines on two clocks: every frame goes to the engine and to a      *)
(* second engine, twin, whose Date.now() is behind by a constant, such     *)
(* that it reads 0 when the first frame arrives 1 ms after the start.      *)
(***************************************************************************)
ClockOffset == Epoch + 1

TwinFrames ==
    {OneHand("point", P0, Pt(60, 0)), OneHand("fist", P0, Up),
     OneHand("fist", P2, Up), OneHand("palm", P0, Up)}

MaxTwinFrames == 3

TwinInit ==
    /\ Constructed
    /\ NoProbe
    /\ MachineNew
    /\ TrackerNew
    /\ twin = NewEngine
    /\ ViewerNew

FrameTwinned ==
    \E d \in TwinFrames, dt \in Deltas :
        /\ Process(d, dt, MaxTwinFrames)
        /\ twin' = processFrame([twin EXCEPT !.out = << >>, !.calls = << >>],
                                ResultsOf(d), now + dt - ClockOffset)
        /\ UNCHANGED <<registered, detectVars, machineVars, smootherVars,
                   viewerVars>>

TwinSpec == TwinInit /\ [][FrameTwinned]_vars

(***************************************************************************)
(* Rotation sessions one after the other: a fist at two tip positions and  *)
(* frames without a hand, 1 or 301 ms apart, long enough for a session, a  *)
(* gap and the start of a second session.                                  *)
(***************************************************************************)
SessionFrames == {OneHand("fist", P0, Up), OneHand("fist", P2, Up), NoFrame}

MaxSessionFrames == 5

FrameInSession ==
    \E d \in SessionFrames, dt \in {1, 301} : Feed(d, dt, MaxSessionFrames)

SessionSpec == Init /\ [][FrameInSession]_vars

(***************************************************************************)
(* Model switching: a hand pointing with knuckle-to-tip vectors on either  *)
(* side of the length 0.04 and of the ratio 0.8, a fist with a horizontal  *)
(* vector, and two right hands of which the first points right; frames     *)
(* 1199, 1200 or 1201 ms apart.                                            *)
(***************************************************************************)
SwipeFrames ==
    {OneHand("point", P0, v) :
        v \in {Pt(60, 0), Pt(-60, 0), Pt(41, 0), Pt(40, 0), Pt(60, 74), Pt(-60, 76)}}
    \cup {OneHand("fist", P0, Pt(60, 0)),
          TwoHands("point", P0, Pt(60, 0), 4200, <<"Right", "Right">>)}

SwipeDeltas == {1199, 1200, 1201}

MaxSwipeFrames == 3

FrameSwiped ==
    \E d \in SwipeFrames, dt \in SwipeDeltas : Feed(d, dt, MaxSwipeFrames)

SwipeSpec == Init /\ [][FrameSwiped]_vars

(***************************************************************************)
(* detectGesture on its own: a hand is described by the height of each     *)
(* fingertip relative to its pip joint (tip.y - pip.y, thumb first), and   *)
(* the classifier is applied to the landmarks so described.                *)
(***************************************************************************)
\* Well above the joint, just inside the 0.02 tolerance, just outside it.
TipOffsets == {-30, 20, 21}

ProbeHands == [1..5 -> TipOffsets]

\* The 21 landmarks of a hand whose fingertips sit at the offsets p.
ProbeLandmarks(p) ==
    LET base == Pt(500, 600)
        tipOf(k) == Pt(base.x, base.y + p[k])
    IN  <<base,
          base, base, base, tipOf(1),
          base, base, base, tipOf(2),
          base, base, base, tipOf(3),
          base, base, base, tipOf(4),
          base, base, base, tipOf(5)>>

DetectInit ==
    /\ Constructed
    /\ probe \in {Some(p) : p \in ProbeHands}
    /\ classified = Null
    /\ Others

Classify ==
    /\ classified = Null
    /\ classified' = Some(detectGesture(ProbeLandmarks(Val(probe))))
    /\ UNCHANGED <<frameVars, registered, probe, machineVars, smootherVars, twin,
                   viewerVars>>

DetectSpec == DetectInit /\ [][Classify]_vars


(***************************************************************************)
(* resetState on its own: called once on an engine whose fields hold any   *)
(* of the values the source gives them, with or without an Unlock handler. *)
(***************************************************************************)
EngineStates ==
    {"idle", "tracking", "rotating", "switching", "pinching", "locked"}

ResetInit ==
    /\ now = Epoch
    /\ state \in EngineStates
    /\ gestureStartTime \in {Null, Some(Epoch - 60)}
    /\ lastHandPosition \in
          {Null, Some([x |-> P1.x, y |-> P1.y, startX |-> P0.x, startY |-> P0.y])}
    /\ pinchStartDistance \in {Null, Some(D(4200, NumLandmarks * Unit))}
    /\ palmStartTime \in {Null, Some(Epoch - 30)}
    /\ switchCooldown \in {Null, Some(Epoch - 90)}
    /\ lastMoveTime \in {Null, Some(Epoch - 20)}
    /\ swipeCooldownTimestamp = Null
    /\ eventCallbacks \in {NoCallbacks, on(NewEngine, "unlock", "h1").eventCallbacks}
    /\ frames = 0
    /\ frame = NoFrame
    /\ events = << >>
    /\ invoked = << >>
    /\ registered = << >>
    /\ lastSwipe = Null
    /\ palmRun = Null
    /\ stillSince = Null
    /\ NoProbe
    /\ Others

ResetCall ==
    /\ frames = 0
    /\ frames' = 1
    /\ \E e \in {resetState(Engine)} :
           /\ state' = e.state
           /\ gestureStartTime' = e.gestureStartTime
           /\ lastHandPosition' = e.lastHandPosition
           /\ pinchStartDistance' = e.pinchStartDistance
           /\ palmStartTime' = e.palmStartTime
           /\ switchCooldown' = e.switchCooldown
           /\ lastMoveTime' = e.lastMoveTime
           /\ swipeCooldownTimestamp' = e.swipeCooldownTimestamp
           /\ eventCallbacks' = e.eventCallbacks
           /\ events' = e.out
           /\ invoked' = e.calls
    /\ UNCHANGED <<now, frame, lastSwipe, palmRun, stillSince, registered,
                   detectVars, machineVars, smootherVars, twin,
                   viewerVars>>

ResetSpec == ResetInit /\ [][ResetCall]_vars

(***************************************************************************)
(* GestureStateMachine (src/unnamed/part_004): the machine as a record m   *)
(* of its fields, update and reset as operators on it.  A field a returned *)
(* object does not have is Null.                                           *)
(***************************************************************************)
minStateDuration == 100

Machine ==
    [currentState |-> currentState,
     previousState |-> previousState,
     stateStartTime |-> stateStartTime]

mapGestureToState(gesture) ==
    IF gesture.type \in {"NONE", "IDLE"} THEN "IDLE"
    ELSE IF gesture.type \in {"SWIPE_LEFT", "SWIPE_RIGHT"} THEN "SWITCHING"
    ELSE IF gesture.type = "ROTATE" THEN "ROTATING"
    ELSE IF gesture.type \in {"PINCH_IN", "PINCH_OUT"} THEN "ZOOMING"
    ELSE IF gesture.type = "OPEN_PALM" THEN "RESETTING"
    ELSE IF gesture.type = "FIST" THEN "LOCKED"
    ELSE "IDLE"

\* isTransitionAllowed without the rule that LOCKED only opens to IDLE.
isTransitionAllowedFromLocked(fromState, toState) ==
    IF fromState = "SWITCHING" THEN TRUE
    ELSE IF fromState = "RESETTING" THEN TRUE
    ELSE IF fromState = "ROTATING" /\ toState = "ZOOMING" THEN FALSE
    ELSE IF fromState = "ZOOMING" /\ toState = "ROTATING" THEN FALSE
    ELSE TRUE

\* isTransitionAllowed without the rule that keeps ROTATING and ZOOMING
\* apart.
isTransitionAllowedRotateZoom(fromState, toState) ==
    IF fromState = "LOCKED" /\ toState # "IDLE" THEN FALSE
    ELSE TRUE

isTransitionAllowed(fromState, toState) ==
    IF fromState = "LOCKED" /\ toState # "IDLE" THEN FALSE
    ELSE IF fromState = "SWITCHING" THEN TRUE
    ELSE IF fromState = "RESETTING" THEN TRUE
    ELSE IF fromState = "ROTATING" /\ toState = "ZOOMING" THEN FALSE
    ELSE IF fromState = "ZOOMING" /\ toState = "ROTATING" THEN FALSE
    ELSE TRUE

\* update(gesture) without the minimum state duration.
updateUndebounced(m, gesture, t) ==
    LET timeInState == t - m.stateStartTime
        newState == mapGestureToState(gesture)
        changed == newState # m.currentState
        m1 == IF changed
              THEN [currentState |-> newState,
                    previousState |-> m.currentState,
                    stateStartTime |-> t]
              ELSE m
    IN  IF isTransitionAllowed(m.currentState, newState)
        THEN [m |-> m1,
              result |-> [state |-> m1.currentState,
                          previousState |-> Some(m1.previousState),
                          changed |-> changed, gesture |-> gesture,
                          timeInState |-> Some(timeInState), blocked |-> Null]]
        ELSE [m |-> m,
              result |-> [state |-> m.currentState, previousState |-> Null,
                          changed |-> FALSE, gesture |-> gesture,
                          timeInState |-> Null, blocked |-> Some(TRUE)]]

\* update(gesture) at time t: the machine afterwards and the object returned.
update(m, gesture, t) ==
    LET timeInState == t - m.stateStartTime
        newState == mapGestureToState(gesture)
        changed == newState # m.currentState
        m1 == IF changed
              THEN [currentState |-> newState,
                    previousState |-> m.currentState,
                    stateStartTime |-> t]
              ELSE m
    IN  IF timeInState < minStateDuration
        THEN [m |-> m,
              result |-> [state |-> m.currentState, previousState |-> Null,
                          changed |-> FALSE, gesture |-> gesture,
                          timeInState |-> Null, blocked |-> Null]]
        ELSE IF isTransitionAllowed(m.currentState, newState)
        THEN [m |-> m1,
              result |-> [state |-> m1.currentState,
                          previousState |-> Some(m1.previousState),
                          changed |-> changed, gesture |-> gesture,
                          timeInState |-> Some(timeInState), blocked |-> Null]]
        ELSE [m |-> m,
              result |-> [state |-> m.currentState, previousState |-> Null,
                          changed |-> FALSE, gesture |-> gesture,
                          timeInState |-> Null, blocked |-> Some(TRUE)]]

\* setState(newState) at time t: the forced change, no rule consulted.
setState(m, newState, t) ==
    [currentState |-> newState,
     previousState |-> m.currentState,
     stateStartTime |-> t]

reset(m, t) ==
    [currentState |-> "IDLE", previousState |-> "IDLE", stateStartTime |-> t]

MachineStates ==
    {"IDLE", "SWITCHING", "ROTATING", "ZOOMING", "RESETTING", "LOCKED"}

\* One gesture type per case of mapGestureToState, and one it does not list.
GestureTypes ==
    {"NONE", "SWIPE_LEFT", "ROTATE", "PINCH_IN", "OPEN_PALM", "FIST", "WAVE"}

\* Milliseconds between two calls: just inside and just outside the
\* minimum state duration.
MachineDeltas == {99, 100}

MaxUpdates == 3

MachineUpdate ==
    /\ updates < MaxUpdates
    /\ updates' = updates + 1
    /\ \E type \in GestureTypes, dt \in MachineDeltas :
          /\ now' = now + dt
          /\ \E r \in {update(Machine, [type |-> type], now + dt)} :
                 /\ currentState' = r.m.currentState
                 /\ previousState' = r.m.previousState
                 /\ stateStartTime' = r.m.stateStartTime
                 /\ updateResult' = Some(r.result)
    /\ UNCHANGED <<engineVars, frames, frame, events, lastSwipe, palmRun,
                   stillSince, eventCallbacks, invoked, registered, detectVars,
                   smootherVars, twin,
                   viewerVars>>

MachineReset ==
    /\ updates < MaxUpdates
    /\ updates' = updates + 1
    /\ \E dt \in MachineDeltas :
          /\ now' = now + dt
          /\ \E m \in {reset(Machine, now + dt)} :
                 /\ currentState' = m.currentState
                 /\ previousState' = m.previousState
                 /\ stateStartTime' = m.stateStartTime
    /\ updateResult' = Null
    /\ UNCHANGED <<engineVars, frames, frame, events, lastSwipe, palmRun,
                   stillSince, eventCallbacks, invoked, registered, detectVars,
                   smootherVars, twin,
                   viewerVars>>

MachineSetState ==
    /\ updates < MaxUpdates
    /\ updates' = updates + 1
    /\ \E newState \in MachineStates, dt \in MachineDeltas :
          /\ now' = now + dt
          /\ \E m \in {setState(Machine, newState, now + dt)} :
                 /\ currentState' = m.currentState
                 /\ previousState' = m.previousState
                 /\ stateStartTime' = m.stateStartTime
    /\ updateResult' = Null
    /\ UNCHANGED <<engineVars, frames, frame, events, lastSwipe, palmRun,
                   stillSince, eventCallbacks, invoked, registered, detectVars,
                   smootherVars, twin,
                   viewerVars>>

MachineNext == MachineUpdate \/ MachineSetState \/ MachineReset

MachineSpec == Init /\ [][MachineNext]_vars

(***************************************************************************)
(* HandTracker (src/unnamed/part_003): the smoothing of the raw landmark   *)
(* sets.  landmarkHistory[handIndex + 1] is the buffer of slot handIndex,  *)
(* empty while the slot has never been used.  Raw coordinates are          *)
(* integers, averages are ratios.                                          *)
(***************************************************************************)
smoothingWindow == 3

\* sumX, sumY or sumZ of point i over the buffered frames.
RECURSIVE SumOver(_, _, _)
SumOver(buffer, i, c) ==
    IF buffer = << >> THEN 0
    ELSE LM(Head(buffer), i)[c] + SumOver(Tail(buffer), i, c)

\* smoothLandmarks that never drops the oldest buffered frame.
smoothLandmarksUnbounded(history, landmarks, handIndex) ==
    LET kept == Append(history[handIndex + 1], landmarks)
        count == Len(kept)
    IN  [history |-> [history EXCEPT ![handIndex + 1] = kept],
         smoothed |-> [k \in 1..Len(landmarks) |->
                          [x |-> Rat(SumOver(kept, k - 1, "x"), count),
                           y |-> Rat(SumOver(kept, k - 1, "y"), count),
                           z |-> Rat(SumOver(kept, k - 1, "z"), count)]]]

smoothLandmarks(history, landmarks, handIndex) ==
    LET pushed == Append(history[handIndex + 1], landmarks)
        kept == IF Len(pushed) > smoothingWindow THEN Tail(pushed) ELSE pushed
        count == Len(kept)
    IN  [history |-> [history EXCEPT ![handIndex + 1] = kept],
         smoothed |-> [k \in 1..Len(landmarks) |->
                          [x |-> Rat(SumOver(kept, k - 1, "x"), count),
                           y |-> Rat(SumOver(kept, k - 1, "y"), count),
                           z |-> Rat(SumOver(kept, k - 1, "z"), count)]]]

\* The forEach of handleResults: the hands of the frame are smoothed in
\* order of their index; the history afterwards and the smoothed hands.
RECURSIVE SmoothFrom(_, _, _, _)
SmoothFrom(history, multiHandLandmarks, handIndex, out) ==
    IF handIndex >= Len(multiHandLandmarks)
    THEN [history |-> history, multiHandLandmarks |-> out]
    ELSE LET r == smoothLandmarks(history,
                                  multiHandLandmarks[handIndex + 1], handIndex)
         IN  SmoothFrom(r.history, multiHandLandmarks, handIndex + 1,
                        Append(out, r.smoothed))

\* The tracker as the record the method operators work on.
HandTracker ==
    [onResultsCallback |-> onResultsCallback, landmarkHistory |-> landmarkHistory]

\* init(videoElement, onResults), as far as the tracker's own fields go.
trackerInit(t, onResults) == [t EXCEPT !.onResultsCallback = Some(onResults)]

\* handleResults(results): without a results callback it returns at once;
\* otherwise called is the smoothedResults the callback is called with
\* before handleResults returns.
handleResults(t, results) ==
    IF t.onResultsCallback = Null THEN [tracker |-> t, called |-> Null]
    ELSE LET r == SmoothFrom(t.landmarkHistory, results.multiHandLandmarks, 0,
                             << >>)
         IN  [tracker |-> [t EXCEPT !.landmarkHistory = r.history],
              called |-> Some([multiHandLandmarks |-> r.multiHandLandmarks,
                               multiHandedness |-> results.multiHandedness])]

\* A raw landmark set of 21 points, different for different a.
RawSet(a) ==
    [k \in 1..NumLandmarks |-> [x |-> a * k, y |-> a + k, z |-> 0 - a]]

\* The frames the camera delivers: no hand, one hand, two hands.
RawFrames ==
    {<< >>}
      \cup {<<RawSet(a)>> : a \in {1, 2, 4}}
      \cup {<<RawSet(a), RawSet(8)>> : a \in {1, 2}}

MaxRawFrames == 4

\* What an observer of smoothLandmarks adds to its log when the tracker is
\* handed the hands raw and hands them on.
Logged(log, raw) ==
    [slot \in 1..2 |->
        Append(log[slot], IF slot <= Len(raw) THEN raw[slot] ELSE << >>)]

\* init is called with a callback that records what it is called with.
TrackInit ==
    /\ onResultsCallback' = trackerInit(HandTracker, "onResults").onResultsCallback
    /\ UNCHANGED <<frameVars, registered, detectVars, machineVars,
                   landmarkHistory, smoothed, rawLog, twin, viewerVars>>

\* MediaPipe hands a frame to handleResults.
TrackFrame ==
    /\ frames < MaxRawFrames
    /\ frames' = frames + 1
    /\ \E raw \in RawFrames :
          \E r \in {handleResults(HandTracker,
                                  [multiHandLandmarks |-> raw,
                                   multiHandedness |-> << >>])} :
              /\ landmarkHistory' = r.tracker.landmarkHistory
              /\ IF r.called = Null
                 THEN UNCHANGED <<smoothed, rawLog>>
                 ELSE /\ smoothed' = Val(r.called).multiHandLandmarks
                      /\ rawLog' = Logged(rawLog, raw)
    /\ UNCHANGED <<now, engineVars, frame, events, lastSwipe, palmRun,
                   stillSince, eventCallbacks, invoked, registered, detectVars,
                   machineVars, onResultsCallback, twin,
                   viewerVars>>

TrackerNext == TrackInit \/ TrackFrame

TrackerSpec == Init /\ [][TrackerNext]_vars

(***************************************************************************)
(* ParticleMorphController (src/src/particles/ParticleSystem.js): the      *)
(* controller as a record c of its fields; update(dt) and reset() are      *)
(* morphUpdate and morphReset here.  dt is in seconds, a double.           *)
(***************************************************************************)
morphSpeed == D(12, 10)

\* Frame times in seconds: none, a twelfth, a sixth, a quarter, a half of a
\* morph, a whole morph, more.
MorphTimes ==
    {Zero, D(1, 10), D(2, 10), D(3, 10), D(6, 10), D(12, 10), FInt(3)}

\* dt * speed, where speed = 1.0 / this.morphSpeed.
MorphStepOf(dt) == FMul(dt, FDiv(One, morphSpeed))

\* SceneRenderer.render's frame time for a clock delta: at most 0.033 s, and
\* a sixtieth of a second when the clock gives 0.
MaxFrameTime == D(33, 1000)

FirstFrameTime == D(1, 60)

frameTime(delta) ==
    LET dt == FMin(delta, MaxFrameTime)
    IN  IF dt = Zero THEN FirstFrameTime ELSE dt

\* The same for the frame times above and those of the render loop,
\* computed once.
MorphStepTable ==
    [dt \in MorphTimes \cup {MaxFrameTime, FirstFrameTime} |-> MorphStepOf(dt)]

MorphStep(dt) ==
    IF dt \in DOMAIN MorphStepTable THEN MorphStepTable[dt] ELSE MorphStepOf(dt)

\* update(dt) that changes the state at the ends without pinning progress.
morphUpdateUnclamped(c, dt) ==
    LET up == FAdd(c.progress, MorphStep(dt))
        down == FSub(c.progress, MorphStep(dt))
    IN  IF c.state = "MORPHING_TO_MODEL"
        THEN [c EXCEPT !.progress = up,
                       !.state = IF ~FLt(up, One) THEN "MODEL_ACTIVE" ELSE @]
        ELSE IF c.state = "MORPHING_TO_IDLE"
        THEN [c EXCEPT !.progress = down,
                       !.state = IF ~FLt(Zero, down) THEN "IDLE" ELSE @]
        ELSE c

\* progress >= 1.0 and progress <= 0.0 are compared on the doubles.
morphUpdate(c, dt) ==
    LET up == FAdd(c.progress, MorphStep(dt))
        down == FSub(c.progress, MorphStep(dt))
    IN  IF c.state = "MORPHING_TO_MODEL"
        THEN IF ~FLt(up, One)
             THEN [c EXCEPT !.progress = One, !.state = "MODEL_ACTIVE"]
             ELSE [c EXCEPT !.progress = up]
        ELSE IF c.state = "MORPHING_TO_IDLE"
        THEN IF ~FLt(Zero, down)
             THEN [c EXCEPT !.progress = Zero, !.state = "IDLE"]
             ELSE [c EXCEPT !.progress = down]
        ELSE c

toModel(c) ==
    [c EXCEPT !.progress = IF c.state = "MODEL_ACTIVE" THEN Zero ELSE @,
              !.state = "MORPHING_TO_MODEL"]

toIdle(c) ==
    IF c.state = "IDLE" THEN c ELSE [c EXCEPT !.state = "MORPHING_TO_IDLE"]

morphReset(c) == [c EXCEPT !.progress = Zero, !.state = "IDLE"]

MaxMorphCalls == 6

MorphCall(c) ==
    /\ steps < MaxMorphCalls
    /\ steps' = steps + 1
    /\ morphController' = c
    /\ UNCHANGED <<frameVars, registered, detectVars, machineVars, smootherVars,
                   twin, modelManager, app, mediaPipe>>

MorphUpdate == \E dt \in MorphTimes : MorphCall(morphUpdate(morphController, dt))

MorphToModel == MorphCall(toModel(morphController))

MorphToIdle == MorphCall(toIdle(morphController))

MorphReset == MorphCall(morphReset(morphController))

\* SceneRenderer.resetTransform, which no caller in the sources uses:
\* ParticleSystem.reset, then toIdle.
resetTransform(c) == toIdle(morphReset(c))

MorphResetTransform == MorphCall(resetTransform(morphController))

MorphNext ==
    \/ MorphUpdate
    \/ MorphToModel
    \/ MorphToIdle
    \/ MorphReset
    \/ MorphResetTransform

MorphSpec == Init /\ [][MorphNext]_vars

(***************************************************************************)
(* MediaPipeManager (src/src/perception/mediaPipeManager.js): the manager  *)
(* as a record m.  The camera calls onFrame, which sends the video frame   *)
(* to the detector and awaits it; while a send is in flight the detector   *)
(* calls the results listener, and the send ends by resolving or by        *)
(* rejecting, each of these a run of its own between which the other       *)
(* methods can be called.  The log has "send" for a frame sent, "callback" *)
(* for a call of the registered callback, "fail" for a send that was       *)
(* caught failing, "stop" for stop().                                      *)
(***************************************************************************)
onResults(m, cb) == [m EXCEPT !.onResultsCb = Some(cb)]

start(m) ==
    [m EXCEPT !.hands = Some("Hands"), !.ready = TRUE, !.camera = Some("Camera")]

stop(m) == [m EXCEPT !.ready = FALSE, !.log = Append(@, "stop")]

\* onFrame that sends whether or not the manager is ready.
onFrameUnguarded(m) ==
    [m EXCEPT !.inFlight = @ + 1, !.log = Append(@, "send")]

\* The camera's onFrame, up to its await.
onFrame(m) ==
    IF ~m.ready THEN m
    ELSE [m EXCEPT !.inFlight = @ + 1, !.log = Append(@, "send")]

\* The listener given to hands.onResults.
handsOnResults(m) ==
    LET h == [m EXCEPT !.heard = @ + 1]
    IN  IF ~m.ready THEN h
        ELSE IF m.onResultsCb # Null THEN [h EXCEPT !.log = Append(@, "callback")]
        ELSE h

\* onFrame after its await: the send has resolved.
sendResolved(m) == [m EXCEPT !.inFlight = @ - 1]

\* onFrame after its await: the send has thrown and the catch block runs.
sendFailed(m) ==
    [m EXCEPT !.inFlight = @ - 1, !.ready = FALSE, !.log = Append(@, "fail")]

MaxPipeCalls == 6

PipeCall(m) ==
    /\ steps < MaxPipeCalls
    /\ steps' = steps + 1
    /\ mediaPipe' = m
    /\ UNCHANGED <<frameVars, registered, detectVars, machineVars, smootherVars,
                   twin, modelManager, app, morphController>>

PipeOnResults == PipeCall(onResults(mediaPipe, "cb"))

\* start(), for the first time or again: a new detector and a new camera.
PipeStart == PipeCall(start(mediaPipe))

PipeOnFrame == mediaPipe.camera # Null /\ PipeCall(onFrame(mediaPipe))

\* The detector calls the listener with the results of a frame sent to it.
PipeListener ==
    /\ mediaPipe.hands # Null
    /\ mediaPipe.inFlight > 0
    /\ PipeCall(handsOnResults(mediaPipe))

PipeSendResolved == mediaPipe.inFlight > 0 /\ PipeCall(sendResolved(mediaPipe))

PipeSendFails == mediaPipe.inFlight > 0 /\ PipeCall(sendFailed(mediaPipe))

\* stop(), before start() as well as after it.
PipeStop == PipeCall(stop(mediaPipe))

PipeNext ==
    \/ PipeOnResults
    \/ PipeStart
    \/ PipeOnFrame
    \/ PipeListener
    \/ PipeSendResolved
    \/ PipeSendFails
    \/ PipeStop

PipeSpec == Init /\ [][PipeNext]_vars

(***************************************************************************)
(* ModelManager (src/src/model/modelManager.js), SceneRenderer and the App *)
(* component (src/src/scene/renderer.js).  Every step is one run of the    *)
(* code from the event loop: the mounting of the component, a callback of  *)
(* the loader or of the camera, a timeout, a click, an animation frame, an *)
(* event the engine emits, the effect of a render.  An async function      *)
(* runs up to its await and goes on in a run of its own, from the          *)
(* microtask queue, once what it awaits is there: for model data in        *)
(* loadedData as soon as the current run has returned, otherwise after the *)
(* loader has called back.  No other run starts while the microtask queue  *)
(* holds something.  The component stays mounted.  Rotations are in the    *)
(* units of the Rotate payload, the scale is a double.                     *)
(***************************************************************************)
ModelPaths == <<"/mechanical.glb", "/Satellite.glb", "/car.glb", "/dinosaur.glb">>

\* init() up to its await of loadModelData(this.models[0]).
init(mm) == [mm EXCEPT !.models = ModelPaths, !.userModel = Null]

CurrentPath(mm) == mm.models[mm.currentIndex + 1]

\* The file name without directory and '.glb', in upper case.
getCurrentModelName(mm) ==
    LET path == CurrentPath(mm)
    IN  IF path = "/mechanical.glb" THEN "MECHANICAL"
        ELSE IF path = "/Satellite.glb" THEN "SATELLITE"
        ELSE IF path = "/car.glb" THEN "CAR"
        ELSE "DINOSAUR"

\* nextModel that stops at the last model instead of wrapping round.
nextModelSaturating(mm) ==
    [mm EXCEPT !.currentIndex = Min(@ + 1, Len(mm.models) - 1)]

\* nextModel and prevModel up to their await.
nextModel(mm) ==
    [mm EXCEPT !.currentIndex = (@ + 1) % Len(mm.models)]

prevModel(mm) ==
    [mm EXCEPT !.currentIndex = (@ - 1 + Len(mm.models)) % Len(mm.models)]

\* loadModelData's success callback.
loaded(mm, path) == [mm EXCEPT !.loadedData = @ \cup {path}]

\* The success callback of processUploadedFile for a model of at most
\* 150000 vertices.
userModelParsed(mm) == [mm EXCEPT !.userModel = Some("user")]

cleanupUserModel(mm) == [mm EXCEPT !.userModel = Null]

IdentityTransform ==
    [rotation |-> [x |-> 0, y |-> 0], scale |-> One, isLocked |-> FALSE]

\* The App's objects as the record its functions work on: the component's
\* refs and state, the manager, and the morph controller of the scene's
\* particle system.
Viewer == [app |-> app, manager |-> modelManager, morph |-> morphController]

\* An async function of the given kind at its await, and the path whose
\* data it goes on with.
Waiting(kind, path) == [kind |-> kind, path |-> path]

\* loadModelData(path) called by a function that awaits it: the data in
\* loadedData is there after the current run, otherwise the loader is
\* called.
loadModelData(v, kind, path) ==
    IF path \in v.manager.loadedData
    THEN [v EXCEPT !.app.resuming = Append(@, Waiting(kind, path))]
    ELSE [v EXCEPT !.app.awaited = Append(@, Waiting(kind, path))]

getCurrentModelData(v, kind) == loadModelData(v, kind, CurrentPath(v.manager))

\* SceneRenderer.setModel with the data of the model at path.
setModel(v, path) == [v EXCEPT !.app.shown = Some(path), !.morph = toModel(@)]

\* SceneRenderer.morphToIdle.
morphToIdle(v) == [v EXCEPT !.morph = toIdle(@)]

\* SceneRenderer.render when the clock gives delta: the particle system's
\* update runs the morph controller's.
render(v, delta) == [v EXCEPT !.morph = morphUpdate(@, frameTime(delta))]

\* The swipe handler from its await on, with the data of the model at
\* path.
swipeLoaded(v, path) ==
    [setModel(v, path) EXCEPT
        !.app.transform = IdentityTransform,
        !.app.currentModel = getCurrentModelName(v.manager)]

\* The swipe handler up to its await; appMode is the one of the render
\* that registered the handler.
swipeHandler(v, direction) ==
    IF v.app.rendered = "user" THEN v
    ELSE LET isRight == direction = "RIGHT"
             mm == IF isRight THEN prevModel(v.manager) ELSE nextModel(v.manager)
         IN  getCurrentModelData([v EXCEPT !.manager = mm], "swipe")

MinScale == D(3, 10)

MaxScale == FInt(3)

\* The zoom handler without the clamp.
zoomHandlerUnclamped(a, scaleFactor) ==
    IF a.transform.isLocked THEN a
    ELSE [a EXCEPT !.transform.scale = FMul(@, scaleFactor)]

zoomHandler(a, scaleFactor) ==
    IF a.transform.isLocked THEN a
    ELSE LET newScale == FMul(a.transform.scale, scaleFactor)
         IN  [a EXCEPT !.transform.scale =
                          FMax(MinScale, FMin(MaxScale, newScale))]

rotateHandler(a, data) ==
    IF a.transform.isLocked THEN a
    ELSE LET invert == IF a.rendered = "user" THEN -1 ELSE 1
         IN  [a EXCEPT !.transform.rotation.y = @ + data.deltaX * invert,
                       !.transform.rotation.x = @ - data.deltaY * invert]

resetHandler(v) == morphToIdle([v EXCEPT !.app.transform = IdentityTransform])

\* setupGestureHandlers: the four handlers registered with the engine, each
\* under the name it has here.
GestureHandlers ==
    <<[event |-> "swipe", callback |-> "swipeHandler"],
      [event |-> "zoom", callback |-> "zoomHandler"],
      [event |-> "rotate", callback |-> "rotateHandler"],
      [event |-> "reset", callback |-> "resetHandler"]>>

RECURSIVE RegisterFrom(_, _)
RegisterFrom(e, i) ==
    IF i > Len(GestureHandlers) THEN e
    ELSE RegisterFrom(on(e, GestureHandlers[i].event, GestureHandlers[i].callback),
                      i + 1)

setupGestureHandlers(e) == RegisterFrom(e, 1)

\* What an observer of the App notes: the input handled last.
Noted(v, type, data) ==
    [v EXCEPT !.app.handled = Some([type |-> type, data |-> data])]

\* One handler called by emit with the event call.data.  The gesture hint,
\* the sounds and the HUD are not part of the record.
Invoke(v, call) ==
    LET data == call.data
        done == IF call.handler = "swipeHandler"
                   THEN swipeHandler(v, data.direction)
                ELSE IF call.handler = "zoomHandler"
                   THEN [v EXCEPT !.app = zoomHandler(@, data.scaleFactor)]
                ELSE IF call.handler = "rotateHandler"
                   THEN [v EXCEPT !.app = rotateHandler(@, data)]
                ELSE IF call.handler = "resetHandler" THEN resetHandler(v)
                ELSE v
    IN  Noted(done, data.type, data)

\* The handlers called during one processFrame call, in the order of the
\* emits.
RECURSIVE InvokeAll(_, _, _)
InvokeAll(v, calls, i) ==
    IF i > Len(calls) THEN v ELSE InvokeAll(Invoke(v, calls[i]), calls, i + 1)

\* The App's objects after a run that left them as v.
Becomes(v) ==
    /\ app' = v.app
    /\ modelManager' = v.manager
    /\ morphController' = v.morph

\* The callback the App gives to HandTracker.init, called with results:
\* processFrame runs to completion, the handlers of the events it emits
\* included, the swipe handler up to its await.
Deliver(results, d, dt, max) ==
    /\ ProcessAs(results, d, dt, max)
    /\ Becomes(InvokeAll(Viewer, invoked', 1))

\* setupGestureHandlers called k times, and the on() calls that makes.
RECURSIVE SetupTimes(_, _)
SetupTimes(e, k) ==
    IF k = 0 THEN e ELSE SetupTimes(setupGestureHandlers(e), k - 1)

RECURSIVE OnCalls(_)
OnCalls(k) == IF k = 0 THEN << >> ELSE GestureHandlers \o OnCalls(k - 1)

\* The first effect: init() up to its await of modelManager.init(), which
\* has called the loader for the first model.
mount(v) ==
    loadModelData([v EXCEPT !.manager = init(@), !.app.phase = "model"],
                  "init", ModelPaths[1])

\* init() from its await of modelManager.init() to its await of
\* handTracker.init(), which stores the callback and starts the camera.
initTracker(v) == [v EXCEPT !.app.phase = "camera"]

\* init() from its await of handTracker.init() to its end: the first
\* animation frame, on which the clock gives 0, and the timeout for the
\* first model.
initDone(v) ==
    [render(v, Zero) EXCEPT
        !.app.phase = "done",
        !.app.animating = TRUE,
        !.app.firstTimer = TRUE]

\* The timeout of init(), up to its await.
firstTimerFired(v) ==
    getCurrentModelData([v EXCEPT !.app.firstTimer = FALSE], "first")

\* The timeout of init() from its await on.
firstShown(v, path) ==
    [setModel(v, path) EXCEPT
        !.app.currentModel = getCurrentModelName(v.manager)]

\* handleUpload up to its await, for no file, a file that is no .glb or
\* .gltf, and one that is; processUploadedFile throws for the second and
\* calls the loader for the third.
handleUpload(v, file) ==
    IF file = "none" THEN v
    ELSE IF file = "notes.txt" THEN morphToIdle(v)
    ELSE [morphToIdle(v) EXCEPT !.app.uploading = @ + 1]

\* The loader has parsed an uploaded file: handleUpload goes on with the
\* vertices.
uploadParsed(v) ==
    [v EXCEPT !.manager = userModelParsed(@),
              !.app.uploading = @ - 1,
              !.app.resuming = Append(@, Waiting("upload", "user"))]

\* The loader has failed on an uploaded file, or the model has more than
\* 150000 vertices: handleUpload goes on in its catch block.
uploadRejected(v) == [v EXCEPT !.app.uploading = @ - 1]

\* handleUpload from its await on: the timeout of 800 ms.
uploadWaits(v) == [v EXCEPT !.app.timers = Append(@, "upload")]

\* The timeout of handleUpload.
uploadShown(v) ==
    [setModel(v, "user") EXCEPT
        !.app.appMode = "user",
        !.app.currentModel = "USER MODEL",
        !.app.transform = IdentityTransform]

handleExit(v) == [morphToIdle(v) EXCEPT !.app.timers = Append(@, "exit")]

\* The timeout of handleExit, up to its await.
exitTimerFired(v) ==
    getCurrentModelData([v EXCEPT !.manager = cleanupUserModel(@)], "exit")

\* The timeout of handleExit from its await on.
exitShown(v, path) ==
    [setModel(v, path) EXCEPT
        !.app.appMode = "showcase",
        !.app.currentModel = getCurrentModelName(v.manager),
        !.app.transform = IdentityTransform]

\* The async function w goes on from its await.
resume(v, w) ==
    IF w.kind = "swipe" THEN swipeLoaded(v, w.path)
    ELSE IF w.kind = "init" THEN initTracker(v)
    ELSE IF w.kind = "camera" THEN initDone(v)
    ELSE IF w.kind = "first" THEN firstShown(v, w.path)
    ELSE IF w.kind = "exit" THEN exitShown(v, w.path)
    ELSE uploadWaits(v)

\* The loader call awaited[i] is settled.
Settled(v, i) ==
    [v EXCEPT !.app.awaited = SubSeq(@, 1, i - 1) \o SubSeq(@, i + 1, Len(@))]

\* A run the App has arranged: a timeout, the camera's start.  It starts
\* when the microtask queue is empty.
Callback(v) ==
    /\ app.resuming = << >>
    /\ Becomes(v)
    /\ UNCHANGED <<frameVars, registered, detectVars, machineVars, smootherVars,
                   twin, mediaPipe, steps>>

\* An input of the given type: a click, an animation frame or a callback
\* of the loader, of which there are at most max events included.
Input(v, type, data, max) ==
    /\ app.resuming = << >>
    /\ steps < max
    /\ steps' = steps + 1
    /\ Becomes(Noted(v, type, data))
    /\ UNCHANGED <<frameVars, registered, detectVars, machineVars, smootherVars,
                   twin, mediaPipe>>

\* The component is mounted: the first effect runs init() up to its first
\* await (the renderer, the engine and the manager are constructed, the
\* handlers registered, modelManager.init() called), the second calls
\* setupGestureHandlers again.
AppMount ==
    /\ app.phase = "rendered"
    /\ eventCallbacks' = SetupTimes(Engine, 2).eventCallbacks
    /\ registered' = registered \o OnCalls(2)
    /\ Becomes(mount(Viewer))
    /\ UNCHANGED <<now, engineVars, frames, frame, events, lastSwipe, palmRun,
                   stillSince, invoked, detectVars, machineVars, smootherVars,
                   twin, mediaPipe, steps>>

\* An async function goes on after its await, from the microtask queue.
AppResumed ==
    /\ app.resuming # << >>
    /\ Becomes(resume([Viewer EXCEPT !.app.resuming = Tail(@)],
                      Head(app.resuming)))
    /\ onResultsCallback' =
          IF Head(app.resuming).kind = "init"
          THEN trackerInit(HandTracker, "onResults").onResultsCallback
          ELSE onResultsCallback
    /\ UNCHANGED <<frameVars, registered, detectVars, machineVars,
                   landmarkHistory, smoothed, rawLog, twin, mediaPipe, steps>>

\* The loader's success callback for a model: the data is stored and the
\* promise resolved, which queues the function that awaits it.
Loaded(max) ==
    \E i \in 1..Len(app.awaited) :
        Input([Settled(Viewer, i) EXCEPT
                  !.app.resuming = Append(@, app.awaited[i]),
                  !.manager = loaded(@, app.awaited[i].path)],
              "loaded", app.awaited[i].path, max)

\* The loader's error callback for a model: the promise is rejected and
\* the function that awaits it throws; init() catches it.
LoadFailed(max) ==
    \E i \in 1..Len(app.awaited) :
        Input([Settled(Viewer, i) EXCEPT
                  !.app.phase = IF app.awaited[i].kind = "init"
                                THEN "failed" ELSE @],
              "failed", app.awaited[i].path, max)

\* camera.start() resolves.
AppCameraStarted ==
    /\ app.phase = "camera"
    /\ Callback([Viewer EXCEPT
                    !.app.resuming = Append(@, Waiting("camera", "camera"))])

\* camera.start() rejects: init() catches it.
AppCameraFailed ==
    /\ app.phase = "camera"
    /\ Callback([Viewer EXCEPT !.app.phase = "failed"])

\* The timeout of init() fires.
AppFirstTimer ==
    /\ app.firstTimer
    /\ Callback(firstTimerFired(Viewer))

\* The oldest timeout of 800 ms fires.
AppTimer ==
    /\ app.timers # << >>
    /\ Callback(IF Head(app.timers) = "upload"
                THEN uploadShown([Viewer EXCEPT !.app.timers = Tail(@)])
                ELSE exitTimerFired([Viewer EXCEPT !.app.timers = Tail(@)]))

\* The loader's callbacks for an uploaded file.
UploadParsed(max) ==
    /\ app.uploading > 0
    /\ Input(uploadParsed(Viewer), "parsed", "user", max)

UploadRejected(max) ==
    /\ app.uploading > 0
    /\ Input(uploadRejected(Viewer), "rejected", "user", max)

\* The render after appMode has changed, and its effect: the handlers are
\* registered again and close over the new appMode.
AppEffect ==
    /\ app.resuming = << >>
    /\ app.rendered # app.appMode
    /\ app' = [app EXCEPT !.rendered = app.appMode]
    /\ eventCallbacks' = setupGestureHandlers(Engine).eventCallbacks
    /\ registered' = registered \o GestureHandlers
    /\ UNCHANGED <<now, engineVars, frames, frame, events, lastSwipe, palmRun,
                   stillSince, invoked, detectVars, machineVars, smootherVars,
                   twin, modelManager, morphController, mediaPipe, steps>>

\* The runs of the App that are no input.
AppRuns ==
    \/ AppMount
    \/ AppResumed
    \/ AppCameraStarted
    \/ AppCameraFailed
    \/ AppFirstTimer
    \/ AppTimer
    \/ AppEffect

\* The files given to handleUpload.
UploadFiles == {"none", "notes.txt", "model.glb"}

\* The clock's deltas between animation frames, in seconds: a sixtieth,
\* and a tenth, which render caps.
ClockDeltas == {FirstFrameTime, D(1, 10)}

\* The file input changes.
Upload(max) ==
    /\ app.phase # "rendered"
    /\ \E file \in UploadFiles :
          Input(handleUpload(Viewer, file), "upload", file, max)

\* The exit button, which the render shows in user mode, is clicked.
Exit(max) ==
    /\ app.rendered = "user"
    /\ Input(handleExit(Viewer), "exit", "exit", max)

\* An animation frame.
Animate(max) ==
    /\ app.animating
    /\ \E delta \in ClockDeltas :
          Input(render(Viewer, delta), "frame", delta, max)

\* Two scale factors near the ends of what the engine emits (0.775 to
\* 1.225), and one rotation.  Five Zooms by the smaller take the scale from
\* 1 below 0.3.
ZoomFactors == {D(7, 9), D(11, 9)}

RotateData == {[type |-> "rotate", deltaX |-> 50, deltaY |-> -25]}

\* The inputs of a behaviour: events, clicks, animation frames and
\* callbacks of the loader, the one for the first model included.
MaxAppEvents == 6

\* The engine emits ev, as it does in processFrame once the camera runs:
\* emit calls the handler registered for it, which runs up to its first
\* await.
AppEvent(ev) ==
    /\ app.phase = "done"
    /\ app.resuming = << >>
    /\ steps < MaxAppEvents
    /\ steps' = steps + 1
    /\ \E e \in {emit(Engine, ev)} :
          /\ events' = e.out
          /\ invoked' = e.calls
          /\ Becomes(InvokeAll(Viewer, e.calls, 1))
    /\ UNCHANGED <<now, engineVars, frames, frame, lastSwipe, palmRun,
                   stillSince, eventCallbacks, registered, detectVars,
                   machineVars, smootherVars, twin, mediaPipe>>

AppSwipe ==
    \E direction \in {"LEFT", "RIGHT"} :
        AppEvent([type |-> "swipe", direction |-> direction])

AppZoom ==
    \E scaleFactor \in ZoomFactors :
        AppEvent([type |-> "zoom", scaleFactor |-> scaleFactor])

AppRotate == \E data \in RotateData : AppEvent(data)

AppReset == AppEvent([type |-> "reset"])

AppLoaded == Loaded(MaxAppEvents)

AppLoadFailed == LoadFailed(MaxAppEvents)

AppUpload == Upload(MaxAppEvents)

AppUploadParsed == UploadParsed(MaxAppEvents)

AppUploadRejected == UploadRejected(MaxAppEvents)

AppExit == Exit(MaxAppEvents)

AppAnimate == Animate(MaxAppEvents)

AppNext ==
    \/ AppRuns
    \/ AppLoaded
    \/ AppLoadFailed
    \/ AppUploadParsed
    \/ AppUploadRejected
    \/ AppSwipe
    \/ AppZoom
    \/ AppRotate
    \/ AppReset
    \/ AppUpload
    \/ AppExit
    \/ AppAnimate

AppSpec == Init /\ [][AppNext]_vars

\* The App with the lock of transformRef set or not.  renderer.js reads
\* isLocked in the zoom and rotate handlers and stores only false, so the
\* lock is an input of the handlers that no run of the App produces: it
\* is drawn here, and the behaviours of AppSpec are those that start
\* unlocked.
LockInit ==
    /\ Constructed
    /\ NoProbe
    /\ MachineNew
    /\ TrackerNew
    /\ twin = Null
    /\ modelManager = NewModelManager
    /\ morphController = NewMorphController
    /\ mediaPipe = NewMediaPipeManager
    /\ steps = 0
    /\ \E isLocked \in BOOLEAN :
          app = [NewApp EXCEPT !.transform.isLocked = isLocked]

LockSpec == LockInit /\ [][AppNext]_vars

(***************************************************************************)
(* The App from the camera to the scene: MediaPipe hands a raw frame to    *)
(* HandTracker.handleResults, which smooths it and calls the App's         *)
(* callback, which calls processFrame, which calls the gesture handlers;   *)
(* all of it before handleResults returns.  The camera delivers frames     *)
(* once camera.start() has resolved, the first model shown or not.  The    *)
(* raw frames are such that each coordinate of each landmark differs from  *)
(* frame to frame by a multiple of 6 grid units, so that every average     *)
(* over one, two or three frames is a grid value again, in the source's    *)
(* arithmetic as well.                                                     *)
(***************************************************************************)
\* The results object MediaPipe delivers for frame d: landmarks with a
\* depth.
Raw(d) ==
    LET r == Results(d)
    IN  [r EXCEPT !.multiHandLandmarks =
            [h \in 1..Len(@) |->
                [k \in 1..Len(@[h]) |-> [x |-> @[h][k].x, y |-> @[h][k].y, z |-> 0]]]]

\* Smoothed results whose averages are grid values, as grid values.
OnGrid(smoothedResults) ==
    [smoothedResults EXCEPT !.multiHandLandmarks =
        [h \in 1..Len(@) |->
            [k \in 1..Len(@[h]) |-> Pt(@[h][k].x.num, @[h][k].y.num)]]]

\* No hand, a hand pointing right and left, a fist at two tip positions,
\* an open palm, a left and a right fist at two distances.  Any two frames
\* differ by a multiple of 6 grid units in every coordinate of a landmark,
\* so the average of one, two or three of them is a grid value.
CameraFrames ==
    {NoFrame,
     OneHand("point", P0, Pt(60, 0)), OneHand("point", P0, Pt(-60, 0)),
     OneHand("fist", P0, Up), OneHand("fist", Pt(518, 512), Up),
     OneHand("palm", P0, Up),
     TwoHands("fist", P0, Up, 4200, <<"Left", "Right">>),
     TwoHands("fist", P0, Up, 4326, <<"Left", "Right">>)}

\* Milliseconds between two camera frames: 30 frames per second, or a pause.
CameraDeltas == {33, 1300}

MaxCameraFrames == 2

MaxViewerInputs == 4

\* A camera frame, one of the inputs of which there are at most
\* MaxViewerInputs.
CameraFrame ==
    /\ app.phase = "done"
    /\ app.resuming = << >>
    /\ frames < MaxCameraFrames
    /\ steps < MaxViewerInputs
    /\ steps' = steps + 1
    /\ \E d \in CameraFrames, dt \in CameraDeltas :
        \E r \in {handleResults(HandTracker, Raw(d))} :
            /\ r.called # Null
            /\ landmarkHistory' = r.tracker.landmarkHistory
            /\ smoothed' = Val(r.called).multiHandLandmarks
            /\ rawLog' = Logged(rawLog, Raw(d).multiHandLandmarks)
            /\ Deliver(OnGrid(Val(r.called)), d, dt, MaxCameraFrames)
            /\ UNCHANGED <<onResultsCallback, registered, detectVars,
                           machineVars, twin, mediaPipe>>

ViewerLoaded == Loaded(MaxViewerInputs)

ViewerLoadFailed == LoadFailed(MaxViewerInputs)

ViewerUpload == Upload(MaxViewerInputs)

ViewerUploadParsed == UploadParsed(MaxViewerInputs)

ViewerUploadRejected == UploadRejected(MaxViewerInputs)

ViewerExit == Exit(MaxViewerInputs)

ViewerAnimate == Animate(MaxViewerInputs)

ViewerNext ==
    \/ AppRuns
    \/ ViewerLoaded
    \/ ViewerLoadFailed
    \/ ViewerUploadParsed
    \/ ViewerUploadRejected
    \/ CameraFrame
    \/ ViewerUpload
    \/ ViewerExit
    \/ ViewerAnimate

ViewerSpec == Init /\ [][ViewerNext]_vars

(***************************************************************************)
(* The event bus on its own: on() and emit() called in any order with a    *)
(* few names, handlers and payloads.                                       *)
(***************************************************************************)
BusNames == {"swipe", "zoom", "toString"}

Handlers == {"h1", "h2"}

Payloads == {1, 2}

MaxRegistrations == 3

Register ==
    /\ Len(registered) < MaxRegistrations
    /\ \E name \in BusNames, h \in Handlers :
          /\ eventCallbacks' = on(Engine, name, h).eventCallbacks
          /\ registered' = Append(registered, [event |-> name, callback |-> h])
    /\ events' = << >>
    /\ invoked' = << >>
    /\ UNCHANGED <<now, engineVars, frames, frame, lastSwipe, palmRun, stillSince,
                   detectVars, machineVars, smootherVars, twin,
                   viewerVars>>

EmitCall ==
    /\ \E name \in BusNames, p \in Payloads :
          \E e \in {emit(Engine, [type |-> name, payload |-> p])} :
              /\ events' = e.out
              /\ invoked' = e.calls
    /\ UNCHANGED <<now, engineVars, frames, frame, lastSwipe, palmRun, stillSince,
                   eventCallbacks, registered, detectVars, machineVars,
                   smootherVars, twin,
                   viewerVars>>

BusNext == Register \/ EmitCall

BusSpec == Init /\ [][BusNext]_vars


(***************************************************************************)
(* Properties of resetState.                                               *)
(***************************************************************************)
\* C21: resetState emits Unlock if and only if the state was Locked; it
\* ends with the state Idle and the anchor, the pinch baseline and the
\* gesture-start time cleared, and leaves the registered handlers and the
\* swipe cooldown timestamp as they were.
ResetStateContract ==
    [][frames' = 1 =>
          /\ events' = IF state = "locked" THEN <<[type |-> "unlock"]>> ELSE << >>
          /\ state' = "idle"
          /\ lastHandPosition' = Null
          /\ pinchStartDistance' = Null
          /\ gestureStartTime' = Null
          /\ eventCallbacks' = eventCallbacks
          /\ switchCooldown' = switchCooldown
          /\ swipeCooldownTimestamp' = swipeCooldownTimestamp]_vars

\* resetState has unlocked an engine that had a swipe cooldown running and
\* an Unlock handler registered.
UnlockedWithCooldown ==
    /\ frames = 1
    /\ events = <<[type |-> "unlock"]>>
    /\ invoked = <<[handler |-> "h1", data |-> [type |-> "unlock"]]>>
    /\ state = "idle"
    /\ switchCooldown # Null
    /\ pinchStartDistance = Null


(***************************************************************************)
(* Properties of on and emit.                                              *)
(***************************************************************************)
\* The handler of the latest on() call made under a name, if any.
LastRegistered(log, name) ==
    LET made == {i \in 1..Len(log) : log[i].event = name}
    IN  IF made = {} THEN Null
        ELSE Some(log[CHOOSE i \in made : \A j \in made : j <= i].callback)

\* C23: emit(name, payload) invokes the handler most recently registered
\* under that name, once, with the payload, before it returns; it invokes
\* no other handler, and nothing when no handler was registered under the
\* name.
EmitCallsLastRegistered ==
    Len(events) = 1 =>
        LET h == LastRegistered(registered, events[1].type)
        IN  invoked = IF h = Null THEN << >>
                      ELSE <<[handler |-> Val(h), data |-> events[1]]>>


(***************************************************************************)
(* Properties of detectGesture.                                            *)
(***************************************************************************)
\* The five finger-extension booleans of a probe: tip.y < pip.y + 0.02.
ExtendedFingers(p) == [k \in 1..5 |-> 1000 * p[k] < 20 * Unit]

\* The first-match-wins list over the booleans (thumb, index, middle, ring,
\* pinky).
ListedPose(f) ==
    LET E == Cardinality({k \in 1..5 : f[k]})
    IN  IF E >= 4 THEN "palm"
        ELSE IF f[2] /\ f[3] /\ ~f[4] /\ ~f[5] THEN "victory"
        ELSE IF E = 0 \/ (E = 1 /\ f[1]) THEN "fist"
        ELSE IF f[2] THEN "point"
        ELSE "unknown"

\* C11: for all 32 combinations of the finger-extension booleans
\* detectGesture returns what the first-match-wins list gives: Palm for four
\* or more, else Victory, else Fist, else Point for an extended index, else
\* Unknown (so a lone middle, ring or pinky finger is Unknown).
DetectMatchesList ==
    classified # Null =>
        Val(classified) = ListedPose(ExtendedFingers(Val(probe)))


(***************************************************************************)
(* Properties of processFrame.                                             *)
(***************************************************************************)
\* A frame has just been delivered.
Delivered == frames' = frames + 1

\* A handedness label in lower case.
LowerCase(l) ==
    IF l \in {"Left", "left", "LEFT"} THEN "left"
    ELSE IF l \in {"Right", "right", "RIGHT"} THEN "right"
    ELSE l

\* One label is left and another is right, compared case-insensitively.
LabelledLeftAndRight(labels) ==
    \E i, j \in 1..Len(labels) :
        LowerCase(labels[i]) = "left" /\ LowerCase(labels[j]) = "right"

\* C12: a frame with two hands at least 0.12 apart takes the two-hand branch
\* (the pinch baseline becomes the distance of its centres, the anchor is
\* left alone) if and only if one label is left and another right, compared
\* case-insensitively; otherwise its first detection is processed as a
\* single hand (a fist latches or moves the anchor and leaves the pinch
\* baseline alone).
LabelsCaseInsensitive ==
    [][(Delivered /\ frame'.n = 2 /\ ~IsGhostFrame(frame')
        /\ frame'.pose = "fist") =>
           IF LabelledLeftAndRight(frame'.labels)
           THEN /\ pinchStartDistance' = Some(FrameDistance(frame'))
                /\ lastHandPosition' = lastHandPosition
           ELSE /\ pinchStartDistance' = pinchStartDistance
                /\ lastHandPosition' # Null]_vars

\* C1: every processFrame call emits at most one event, and a call that
\* emits Swipe emits neither Rotate nor Zoom.
OneEventPerFrame ==
    /\ Len(events) <= 1
    /\ Count(events, "swipe") > 0 =>
          Count(events, "rotate") = 0 /\ Count(events, "zoom") = 0

\* A Swipe was emitted while a rotation anchor older than 50 ms was latched.
SwipeWhileAnchored ==
    /\ Count(events, "swipe") = 1
    /\ lastHandPosition # Null
    /\ now - Num(gestureStartTime) > 50

\* C2: any two Swipe emissions are at least 1200 ms apart, whatever frames
\* come in between, and no frame emits two.
SwipeCooldown ==
    [][/\ Count(events', "swipe") <= 1
       /\ (Count(events', "swipe") = 1 /\ lastSwipe # Null) =>
             now' - Val(lastSwipe) >= 1200]_vars

\* A second horizontal Point arrived less than 1200 ms after a Swipe, other
\* frames in between, and emitted nothing.
SwipeSuppressed ==
    /\ IsSwipeFrame(frame)
    /\ events = << >>
    /\ lastSwipe # Null
    /\ now - Val(lastSwipe) < 1200
    /\ now - Val(lastSwipe) > 1

\* C3: a run of single-hand Palm frames that starts with the engine not
\* Idle has emitted no Reset while it spans at most 1199 ms, and exactly
\* one Reset once it spans 1201 ms or more.
PalmHoldReset ==
    (palmRun # Null /\ Val(palmRun).from # "idle") =>
        /\ now - Val(palmRun).start <= 1199 => Val(palmRun).resets = 0
        /\ now - Val(palmRun).start >= 1201 => Val(palmRun).resets = 1

\* The scale factor 1 + (clamp(d1 / d0, 0.85, 1.15) - 1) * 1.5.
ZoomFactor(d0, d1) ==
    LET ratio == FDiv(d1, d0)
        clamped == IF FLt(ratio, D(85, 100)) THEN D(85, 100)
                   ELSE IF FLt(D(115, 100), ratio) THEN D(115, 100)
                   ELSE ratio
    IN  FAdd(One, FMul(FSub(clamped, One), D(15, 10)))

\* The events of a two-hand frame at distance d1 that follows one at d0.
ZoomEvents(d0, d1) ==
    LET sf == ZoomFactor(d0, d1)
    IN  IF FLt(D(5, 10000), FAbs(FSub(sf, One)))
        THEN <<[type |-> "zoom", scaleFactor |-> sf]>>
        ELSE << >>

\* The same for every two frames of the input, computed once.
ZoomEventsTable ==
    LET distances == {FrameDistance(d) : d \in TwoHandFrames}
    IN  [pair \in {<<d0, d1>> : d0, d1 \in distances} |->
            ZoomEvents(pair[1], pair[2])]

\* C4: the second of two consecutive two-hand frames with centre distances
\* d0 > 0 then d1 emits Zoom with scaleFactor
\* 1 + (clamp(d1 / d0, 0.85, 1.15) - 1) * 1.5 if that differs from 1 by more
\* than 0.0005, and nothing otherwise.
ZoomRatio ==
    [][(Delivered /\ frames > 0 /\ IsTwoHandFrame(frame)
        /\ IsTwoHandFrame(frame') /\ frame.sep > 0) =>
           events' = ZoomEventsTable[<<FrameDistance(frame),
                                       FrameDistance(frame')>>]]_vars

\* The scale factor of a ratio clamped at 1.15.
ClampedZoomIn == FAdd(One, FMul(FSub(D(115, 100), One), D(15, 10)))

\* A two-hand frame emitted a clamped zoom-in.
ZoomClamped ==
    /\ IsTwoHandFrame(frame)
    /\ events = <<[type |-> "zoom", scaleFactor |-> ClampedZoomIn]>>

\* C5: a zero-hand frame leaves the engine Idle with anchor, pinch baseline
\* and gesture-start time cleared; it emits Unlock only if the state was
\* Locked, so that a sequence of zero-hand frames emits it at most once.
NoHandsQuiesces ==
    [][(Delivered /\ frame'.n = 0) =>
          /\ state' = "idle"
          /\ lastHandPosition' = Null
          /\ pinchStartDistance' = Null
          /\ gestureStartTime' = Null
          /\ Count(events', "unlock") <= 1
          /\ Count(events', "unlock") = 1 => state = "locked"
          /\ (frames > 0 /\ frame.n = 0) => events' = << >>]_vars

\* A zero-hand frame arrived after a swipe and a running palm hold and left
\* the engine Idle.
NoHandsAfterActivity ==
    /\ frames >= 3
    /\ frame.n = 0
    /\ state = "idle"
    /\ Truthy(switchCooldown)
    /\ Truthy(palmStartTime)

\* C6: once the engine is Rotating and every later frame is a Fist or Point
\* frame that moves the index tip by at most 0.002, it has left Rotating
\* before 301 ms have passed.
StillnessAutoIdle ==
    stillSince # Null => now - Val(stillSince) < 301

\* C7: a frame whose first two detections are less than 0.12 apart is
\* processed as the first hand alone: it emits no Zoom, does not make the
\* state Pinching and records no pinch baseline, whatever the labels.
GhostSuppressed ==
    [][(Delivered /\ IsGhostFrame(frame')) =>
          /\ Count(events', "zoom") = 0
          /\ state' = "pinching" => state = "pinching"
          /\ pinchStartDistance' # Null => pinchStartDistance' = pinchStartDistance
          /\ events' = handleSingleHandGestures(Engine, FirstHand(frame'), now').out]_vars

\* A ghost frame, labelled left and right, completed a Palm hold.
GhostPalmReset ==
    /\ IsGhostFrame(frame)
    /\ \E i, j \in 1..Len(frame.labels) :
          frame.labels[i] = "Left" /\ frame.labels[j] = "Right"
    /\ Count(events, "reset") = 1

\* C8: for 1200 ms after a Swipe every single-hand frame is skipped: it
\* emits nothing and changes no field of the engine.
SwipeGlobalCooldown ==
    [][(Delivered /\ lastSwipe # Null /\ now' - Val(lastSwipe) < 1200
        /\ IsSingleHandFrame(frame')) =>
           (events' = << >> /\ UNCHANGED engineVars)]_vars

\* C9: the state is Switching only after the frame that emitted the Swipe.
SwitchingMomentary ==
    [][(Delivered /\ state' = "switching") => Count(events', "swipe") = 1]_vars

\* C10: every frame that is not a single-hand Palm frame clears the
\* palm-hold timer, and Reset is emitted only by a frame that ends a run of
\* Palm frames spanning more than 1200 ms.
PalmTimerCleared ==
    /\ (frames > 0 /\ ~IsPalmFrame(frame)) => ~Truthy(palmStartTime)
    /\ Count(events, "reset") > 0 =>
          (palmRun # Null /\ now - Val(palmRun).start > 1200)

\* C13: every Rotate carries 2.5 times the displacement of the index tip
\* since the frame delivered immediately before, whatever kind of frame that
\* was (the payload is kept as 5 * delta, in units of 1 / (2 * Unit)).
RotateDeltaPerFrame ==
    [][(Delivered /\ Count(events', "rotate") > 0) =>
          /\ frames > 0
          /\ frame.n >= 1
          /\ events'[1].deltaX = 5 * (frame'.tip.x - frame.tip.x)
          /\ events'[1].deltaY = 5 * (frame'.tip.y - frame.tip.y)]_vars

\* A single-hand Fist frame, or a Point frame that is not a swipe.
IsRotateFrame(d) ==
    /\ IsSingleHandFrame(d)
    /\ d.pose \in {"fist", "point"}
    /\ ~IsSwipeFrame(d)

\* C14: with the anchor latched, a Fist/Point rotate frame emits Rotate and
\* sets the state Rotating if at least 50 ms have passed since the latch,
\* and emits nothing and leaves the state alone if fewer have.
RotateAfter50 ==
    [][(Delivered /\ lastHandPosition # Null /\ IsRotateFrame(frame')) =>
          IF now' - Num(gestureStartTime) >= 50
          THEN Count(events', "rotate") = 1 /\ state' = "rotating"
          ELSE events' = << >> /\ state' = state]_vars

\* C15: a run of single-hand Palm frames that starts with the engine not
\* Idle has emitted Reset by the time it spans 1200 ms or more.
PalmHoldBoundary ==
    (palmRun # Null /\ Val(palmRun).from # "idle"
     /\ now - Val(palmRun).start >= 1200) => Val(palmRun).resets >= 1

\* C16: no frame that starts with the engine Idle emits Reset, and a frame
\* that emits Reset ends with the engine Idle and the anchor, the pinch
\* baseline, the gesture-start time and the palm-hold timer cleared.
ResetOnlyWhenActive ==
    [][(Delivered /\ Count(events', "reset") > 0) =>
          /\ state # "idle"
          /\ state' = "idle"
          /\ lastHandPosition' = Null
          /\ pinchStartDistance' = Null
          /\ gestureStartTime' = Null
          /\ palmStartTime' = Null]_vars

\* A Palm hold that began while Pinching has emitted Reset.
ResetFromPinching ==
    /\ events = <<[type |-> "reset"]>>
    /\ palmRun # Null
    /\ Val(palmRun).from = "pinching"
    /\ state = "idle"

\* C17: a single-hand frame emits Swipe if and only if it is a Point whose
\* knuckle-to-tip vector has |dx| > 0.8 |dy| and |dx| > 0.04 and no Swipe
\* was emitted in the 1200 ms before it (the instant 1200 ms before
\* included); the Swipe is RIGHT for dx > 0 and LEFT otherwise, the state
\* becomes Switching and the cooldown timestamp the time of the frame.
SwipeIff ==
    [][(Delivered /\ IsSingleHandFrame(frame')) =>
          IF /\ IsSwipeFrame(frame')
             /\ (lastSwipe = Null \/ now' - Val(lastSwipe) > 1200)
          THEN /\ events' = <<[type |-> "swipe",
                               direction |-> IF frame'.vec.x > 0
                                             THEN "RIGHT" ELSE "LEFT"]>>
               /\ state' = "switching"
               /\ switchCooldown' = Some(now')
          ELSE Count(events', "swipe") = 0]_vars

\* A Point whose vector is barely horizontal enough emitted a later Swipe.
BarelyHorizontalSwipe ==
    /\ frames >= 3
    /\ frame.vec = Pt(60, 74)
    /\ events = <<[type |-> "swipe", direction |-> "RIGHT"]>>
    /\ switchCooldown = Some(now)

\* C18: a Fist or non-swipe Point frame that finds no anchor latched
\* latches its index tip as the current and the session-start anchor,
\* records the time as the gesture start, sets the state Tracking and emits
\* nothing.
LatchOnFirstFrame ==
    [][(Delivered /\ IsRotateFrame(frame') /\ lastHandPosition = Null) =>
          /\ lastHandPosition' =
                Some([x |-> frame'.tip.x, y |-> frame'.tip.y,
                      startX |-> frame'.tip.x, startY |-> frame'.tip.y])
          /\ gestureStartTime' = Some(now')
          /\ state' = "tracking"
          /\ events' = << >>]_vars

\* An upward Point latched the anchor after an earlier Swipe.
LatchAfterSwipe ==
    /\ frame.pose = "point"
    /\ IsRotateFrame(frame)
    /\ lastSwipe # Null
    /\ state = "tracking"
    /\ events = << >>
    /\ gestureStartTime = Some(now)
    /\ lastHandPosition # Null
    /\ Val(lastHandPosition).startX = frame.tip.x

\* C19: a two-hand frame that finds no pinch baseline sets the state
\* Pinching and emits nothing, and after every two-hand frame the baseline
\* is the distance between the centres of that frame's hands.
PinchBaselineFollows ==
    [][(Delivered /\ IsTwoHandFrame(frame')) =>
          /\ pinchStartDistance' = Some(FrameDistance(frame'))
          /\ pinchStartDistance = Null =>
                (state' = "pinching" /\ events' = << >>)]_vars

\* A two-hand frame right after a latched fist started a pinch.
PinchStartsAfterLatch ==
    /\ frames = 2
    /\ IsTwoHandFrame(frame)
    /\ lastHandPosition # Null
    /\ state = "pinching"
    /\ events = << >>
    /\ pinchStartDistance = Some(FrameDistance(frame))

\* C20: after a single-hand frame classified Unknown or Victory the engine
\* is Idle with the anchor, the pinch baseline and the gesture-start time
\* cleared, and the frame has emitted no Rotate, Swipe, Zoom or Reset.
OtherPosesReset ==
    (frames > 0 /\ IsSingleHandFrame(frame)
     /\ frame.pose \in {"unknown", "victory"}) =>
        /\ \A i \in 1..Len(events) :
              events[i].type \notin {"rotate", "swipe", "zoom", "reset"}
        /\ state = "idle"
        /\ lastHandPosition = Null
        /\ pinchStartDistance = Null
        /\ gestureStartTime = Null

\* A Victory frame arrived after the hand had been moving a latched anchor.
VictoryEndsRotation ==
    /\ frame.pose = "victory"
    /\ IsSingleHandFrame(frame)
    /\ Truthy(lastMoveTime)
    /\ now - Val(lastMoveTime) <= 301
    /\ state = "idle"


(***************************************************************************)
(* Properties of GestureStateMachine.                                      *)
(***************************************************************************)
\* The step is a call of update; updateResult' is what it returned.
UpdateCalled == updates' = updates + 1 /\ updateResult' # Null

\* The gesture types the state mapping sends to a state other than IDLE.
ActiveTypes ==
    {"SWIPE_LEFT", "SWIPE_RIGHT", "ROTATE", "PINCH_IN", "PINCH_OUT",
     "OPEN_PALM", "FIST"}

\* C22 as stated: update in LOCKED leaves LOCKED only for IDLE, and for
\* every gesture that does not map to IDLE it keeps LOCKED and reports the
\* gesture as blocked.
LockedReportsBlocked ==
    [][(UpdateCalled /\ currentState = "LOCKED") =>
          /\ currentState' \in {"LOCKED", "IDLE"}
          /\ Val(updateResult').gesture.type \in ActiveTypes =>
                 /\ currentState' = "LOCKED"
                 /\ Val(updateResult').blocked = Some(TRUE)]_vars

\* C22 amended: update in LOCKED leaves LOCKED only for IDLE; for every
\* gesture that does not map to IDLE it keeps LOCKED with changed = false,
\* and reports blocked exactly when at least minStateDuration ms have
\* passed in LOCKED (inside that window the returned object has no blocked
\* flag).
LockedOpensOnlyToIdle ==
    [][(UpdateCalled /\ currentState = "LOCKED") =>
          /\ currentState' \in {"LOCKED", "IDLE"}
          /\ Val(updateResult').gesture.type \in ActiveTypes =>
                 /\ currentState' = "LOCKED"
                 /\ Val(updateResult').changed = FALSE
                 /\ (Val(updateResult').blocked = Some(TRUE))
                        <=> (now' - stateStartTime >= 100)]_vars

\* A ROTATE gesture was refused in LOCKED and reported as blocked.
LockedRefusedRotate ==
    /\ currentState = "LOCKED"
    /\ updateResult # Null
    /\ Val(updateResult).gesture.type = "ROTATE"
    /\ Val(updateResult).blocked = Some(TRUE)


\* C38: an update call made fewer than 100 ms after the state was entered
\* (by update, setState, reset or construction) leaves currentState as it
\* is and returns it with changed = false, whatever the gesture.
UpdateDebounced ==
    [][(UpdateCalled /\ now' - stateStartTime < 100) =>
          /\ currentState' = currentState
          /\ stateStartTime' = stateStartTime
          /\ Val(updateResult').state = currentState
          /\ Val(updateResult').changed = FALSE]_vars

\* A ROTATE gesture, which IDLE would accept, came too early and IDLE stays.
RotateTooEarly ==
    /\ currentState = "IDLE"
    /\ updateResult # Null
    /\ Val(updateResult).gesture.type = "ROTATE"
    /\ Val(updateResult).changed = FALSE

\* The update call is a rotate gesture while ZOOMING or a pinch gesture
\* while ROTATING.
RotateZoomClash ==
    /\ UpdateCalled
    /\ \/ currentState = "ZOOMING" /\ Val(updateResult').gesture.type = "ROTATE"
       \/ /\ currentState = "ROTATING"
          /\ Val(updateResult').gesture.type \in {"PINCH_IN", "PINCH_OUT"}

\* C39 as stated: update never moves from ROTATING to ZOOMING or back; a
\* rotate gesture while ZOOMING, or a pinch gesture while ROTATING, leaves
\* the state unchanged and is reported as blocked.
RotateZoomReportsBlocked ==
    [][/\ UpdateCalled =>
            {currentState, currentState'} # {"ROTATING", "ZOOMING"}
       /\ RotateZoomClash =>
            /\ currentState' = currentState
            /\ Val(updateResult').blocked = Some(TRUE)]_vars

\* C39 amended: update never moves from ROTATING to ZOOMING or back; a
\* rotate gesture while ZOOMING, or a pinch gesture while ROTATING, leaves
\* the state unchanged with changed = false, and is reported as blocked
\* exactly when at least minStateDuration ms have passed in the state.
RotateZoomKeptApart ==
    [][/\ UpdateCalled =>
            {currentState, currentState'} # {"ROTATING", "ZOOMING"}
       /\ RotateZoomClash =>
            /\ currentState' = currentState
            /\ Val(updateResult').changed = FALSE
            /\ (Val(updateResult').blocked = Some(TRUE))
                   <=> (now' - stateStartTime >= 100)]_vars

\* A rotate gesture was refused while ZOOMING and reported as blocked.
ZoomingRefusedRotate ==
    /\ currentState = "ZOOMING"
    /\ updateResult # Null
    /\ Val(updateResult).gesture.type = "ROTATE"
    /\ Val(updateResult).blocked = Some(TRUE)

(***************************************************************************)
(* Properties of smoothLandmarks.                                          *)
(***************************************************************************)
\* The raw sets a slot has received, oldest first (an empty log entry is a
\* frame without a hand in the slot).
Received(log) == SelectSeq(log, LAMBDA raw : raw # << >>)

\* The last n elements of a sequence, all of it when it is shorter.
LastOf(seq, n) ==
    IF Len(seq) <= n THEN seq ELSE SubSeq(seq, Len(seq) - n + 1, Len(seq))

\* The arithmetic mean of point k over one, two or three sets.
MeanPoint(sets, k) ==
    LET n == Len(sets)
        total(c) ==
            IF n = 1 THEN sets[1][k][c]
            ELSE IF n = 2 THEN sets[1][k][c] + sets[2][k][c]
            ELSE sets[1][k][c] + sets[2][k][c] + sets[3][k][c]
    IN  [x |-> Rat(total("x"), n), y |-> Rat(total("y"), n),
         z |-> Rat(total("z"), n)]

\* The slot has a hand in the frame just handled.
Occupied(slot) == rawLog[slot] # << >> /\ rawLog[slot][Len(rawLog[slot])] # << >>

\* C25: per slot the buffer is the last (at most 3) raw sets received in
\* that slot, oldest first, and output point i is the mean of point i over
\* exactly those sets; the sets of the other slot do not enter.
SmoothedIsWindowMean ==
    \A slot \in 1..2 :
       /\ landmarkHistory[slot] = LastOf(Received(rawLog[slot]), 3)
       /\ Occupied(slot) =>
              /\ Len(smoothed) >= slot
              /\ smoothed[slot] =
                     [k \in 1..NumLandmarks |->
                         MeanPoint(LastOf(Received(rawLog[slot]), 3), k)]

\* Slot 0 received four sets, the first of which differs from the ones
\* still buffered, while slot 1 holds a set of its own.
OldestDropped ==
    /\ Len(Received(rawLog[1])) = 4
    /\ Occupied(1)
    /\ \A j \in 2..4 : Received(rawLog[1])[j] # Received(rawLog[1])[1]
    /\ Received(rawLog[2]) # << >>

\* The set as it is when no averaging has changed it.
Exactly(raw) ==
    [k \in 1..Len(raw) |->
        [x |-> Rat(raw[k].x, 1), y |-> Rat(raw[k].y, 1), z |-> Rat(raw[k].z, 1)]]

\* C24: when a slot was vacant in the frame before and a hand re-appears
\* in it, the smoothed output of that frame equals the frame's raw set.
FreshAfterVacancy ==
    \A slot \in 1..2 :
       LET log == rawLog[slot]
           n == Len(log)
       IN  (/\ n >= 3
            /\ log[n] # << >>
            /\ log[n - 1] = << >>
            /\ Received(SubSeq(log, 1, n - 1)) # << >>)
              => smoothed[slot] = Exactly(log[n])


(***************************************************************************)
(* Properties of the engine at camera rate.                                *)
(***************************************************************************)
\* C26: of the pointing frames delivered every 33 ms from Idle with the tip
\* advancing 0.01 per frame, the first and the second emit nothing; the
\* third and every later one emit exactly one Rotate with deltaX 0.01 * 2.5
\* (5 * TipStep in half grid units).
RotateFromThirdFrame ==
    [][Delivered =>
          IF frames' <= 2 THEN events' = << >>
          ELSE /\ Len(events') = 1
               /\ events'[1].type = "rotate"
               /\ events'[1].deltaX = 5 * TipStep]_vars

\* The fifth frame has been delivered and has rotated the model.
FifthFrameRotates ==
    /\ frames = 5
    /\ state = "rotating"
    /\ Count(events, "rotate") = 1


(***************************************************************************)
(* Properties of the timers under a shifted clock.                         *)
(***************************************************************************)
\* C27: an engine whose clock differs by a constant from another's, fed
\* the same frames, emits the same events in every frame and is in the
\* same state after it.
ClockShiftInvisible ==
    frames > 0 => twin.out = events /\ twin.state = state


(***************************************************************************)
(* Properties of the events across frames.                                 *)
(***************************************************************************)
\* C28: a frame emits Zoom only if the frame processed immediately before
\* it was handled by the two-hand branch as well.
ZoomOnlyAfterTwoHands ==
    [][(Delivered /\ Count(events', "zoom") > 0) =>
          IsTwoHandFrame(frame)]_vars

\* C29: a frame that emits Zoom does so in state Pinching (the two-hand
\* branch does not assign the state when it emits), and a frame that emits
\* Rotate does so in state Rotating (which the same frame may still leave
\* for Idle through the stillness reset).
EmissionStates ==
    [][Delivered =>
          /\ Count(events', "zoom") > 0 =>
                 state = "pinching" /\ state' = "pinching"
          /\ Count(events', "rotate") > 0 =>
                 \/ state' = "rotating"
                 \/ /\ state' = "idle"
                    /\ lastHandPosition' = Null
                    /\ lastMoveTime' = Null]_vars

\* C30: the stillness branch (a Fist/Point rotate frame with the anchor
\* latched that ends in Idle) acts only in a session whose anchor was
\* latched more than 300 ms before; a freshly latched session is not
\* reset.
AutoIdleWithinSession ==
    [][(/\ Delivered
        /\ lastHandPosition # Null
        /\ IsRotateFrame(frame')
        /\ state' = "idle")
          => now' - Num(gestureStartTime) > 300]_vars


(***************************************************************************)
(* Invariants of the engine's fields.                                      *)
(***************************************************************************)
\* C31: in Idle the anchor, the pinch baseline and the gesture start time
\* are null; in Tracking and Rotating the anchor and the gesture start time
\* are set; in Pinching the pinch baseline is set.
StateMatchesFields ==
    /\ state = "idle" =>
           /\ lastHandPosition = Null
           /\ pinchStartDistance = Null
           /\ gestureStartTime = Null
    /\ state \in {"tracking", "rotating"} =>
           lastHandPosition # Null /\ gestureStartTime # Null
    /\ state = "pinching" => pinchStartDistance # Null

\* Tracking a fist while the baseline of an earlier pinch is still held.
TrackingWithBaseline ==
    /\ state = "tracking"
    /\ lastHandPosition # Null
    /\ pinchStartDistance # Null

\* C32: the state is one of idle, tracking, rotating, switching and
\* pinching after every frame, and no frame emits Lock or Unlock.
NeverLocked ==
    /\ state \in {"idle", "tracking", "rotating", "switching", "pinching"}
    /\ \A i \in 1..Len(events) : events[i].type \notin {"lock", "unlock"}

\* A frame without hands has taken an engine with a latched anchor, whose
\* hand had moved, back to Idle.
IdleAfterSession ==
    /\ frames = 3
    /\ state = "idle"
    /\ frame.n = 0
    /\ lastMoveTime # Null


(***************************************************************************)
(* Properties of ParticleMorphController.                                  *)
(***************************************************************************)
\* C37: progress is within [0, 1]; it is 0 in IDLE and 1 in MODEL_ACTIVE;
\* the state is never SWITCHING_MODEL.
MorphProgressBounds ==
    /\ ~FLt(morphController.progress, Zero)
    /\ ~FLt(One, morphController.progress)
    /\ morphController.state = "IDLE" => morphController.progress = Zero
    /\ morphController.state = "MODEL_ACTIVE" => morphController.progress = One
    /\ morphController.state # "SWITCHING_MODEL"

\* A morph to the model was turned round half way, and is on its way back.
MorphTurnedRound ==
    /\ morphController.state = "MORPHING_TO_IDLE"
    /\ FLt(Zero, morphController.progress)
    /\ FLt(morphController.progress, One)
    /\ steps = 3


(***************************************************************************)
(* Properties of MediaPipeManager.                                         *)
(***************************************************************************)
\* C40: after stop() or a failed send, the registered callback is not
\* called and no frame is sent to the detector, whatever the order of
\* camera frames, detector results and stop() calls: from a state in which
\* ready is false, as stop() and a failed send leave it until start() is
\* called again, a step adds nothing to the log but "stop" or "fail".
QuietAfterStop ==
    [][~mediaPipe.ready =>
          \/ mediaPipe'.log = mediaPipe.log
          \/ \E what \in {"stop", "fail"} :
                mediaPipe'.log = Append(mediaPipe.log, what)]_vars

\* A frame was sent, stop() came while it was in flight, and its results
\* arrived afterwards without reaching the registered callback.
ResultsAfterStopDropped ==
    /\ mediaPipe.onResultsCb # Null
    /\ mediaPipe.log = <<"send", "stop">>
    /\ mediaPipe.heard = 1
    /\ mediaPipe.inFlight = 0
    /\ ~mediaPipe.ready


(***************************************************************************)
(* Properties of ModelManager and of the App's gesture handlers.           *)
(***************************************************************************)
\* The step is the handling of an input of the given type.
Handled(type) ==
    /\ steps' = steps + 1
    /\ app'.handled # Null
    /\ Val(app'.handled).type = type

\* The step is a camera frame on which the engine emits a Swipe.
SwipeDelivered ==
    /\ frames' = frames + 1
    /\ Count(events', "swipe") = 1

\* C33: in showcase mode a Swipe RIGHT moves the manager to the next model
\* (index + 1 modulo the number of models) and a Swipe LEFT to the
\* previous one.
SwipeRightIsNext ==
    [][(SwipeDelivered /\ app.appMode = "showcase") =>
          LET n == Len(modelManager.models)
              i == modelManager.currentIndex
          IN  modelManager'.currentIndex =
                 IF events'[1].direction = "RIGHT" THEN (i + 1) % n
                 ELSE (i - 1 + n) % n]_vars

\* nextModel applied k times.
RECURSIVE NextTimes(_, _)
NextTimes(mm, k) == IF k = 0 THEN mm ELSE NextTimes(nextModel(mm), k - 1)

\* C34: after init and any swipes, currentIndex is within
\* 0..models.length-1, nextModel then prevModel (and prevModel then
\* nextModel) give the index back, and models.length nextModel calls in a
\* row return to it.
IndexCycles ==
    modelManager.models # << >> =>
        LET n == Len(modelManager.models)
            i == modelManager.currentIndex
        IN  /\ i \in 0..(n - 1)
            /\ nextModel(modelManager).currentIndex \in 0..(n - 1)
            /\ prevModel(modelManager).currentIndex \in 0..(n - 1)
            /\ prevModel(nextModel(modelManager)).currentIndex = i
            /\ nextModel(prevModel(modelManager)).currentIndex = i
            /\ NextTimes(modelManager, n).currentIndex = i

\* The first model loaded and four swipes to the next model have gone
\* round all the models: the index is back at 0 and the three models not
\* loaded by init are awaited.
RoundAllModels ==
    /\ steps = 5
    /\ modelManager.currentIndex = 0
    /\ app.awaited = <<Waiting("swipe", "/Satellite.glb"),
                       Waiting("swipe", "/car.glb"),
                       Waiting("swipe", "/dinosaur.glb")>>

\* C35: when the load a swipe waits for fails (and no other load is
\* awaited), currentIndex is the index of the model shown, as before the
\* swipe, so that getCurrentModelName names the model on display.
FailedLoadKeepsIndex ==
    [][(/\ Handled("failed")
        /\ Len(app.awaited) = 1
        /\ app.awaited[1].kind = "swipe"
        /\ app.shown # Null) =>
          CurrentPath(modelManager') = Val(app'.shown)]_vars

\* The scale brought into [0.3, 3].
InRange(scale) ==
    IF FLt(scale, MinScale) THEN MinScale
    ELSE IF FLt(MaxScale, scale) THEN MaxScale
    ELSE scale

=============================================================================
